---------------------------- MODULE Spec2Model ----------------------------
(***************************************************************************)
(* A model of the anomaly detection engine of the repository: the DLF log  *)
(* decoder (src/dlf_parser.py), the statistical baseline tracker           *)
(* (src/statistical_baseline_tracker.py), the temporal pattern analyzer    *)
(* (src/temporal_pattern_analyzer.py), the ensemble scorer                 *)
(* (src/ml_anomaly_detection.py) and the protocol detectors                *)
(* (src/folder_anomaly_analyzer_clickhouse.py).                            *)
(*                                                                         *)
(* Each component has its own variables, its own initial condition and its *)
(* own next-state relation; one specification per component drives that    *)
(* component and leaves the others in their constructed state.             *)
(***************************************************************************)
EXTENDS Integers, Sequences, FiniteSets, TLC

VARIABLES
    \* ---- DLFParser (src/dlf_parser.py) ----
    dlf_pc,          \* "idle" | "scanning" | "done": position in parse_dlf_file
    file_content,    \* the bytes read from the file
    buffer_pos,      \* read position of the BytesIO buffer
    packets,         \* the list parse_dlf_file returns
    packet_number,   \* local counter of parse_dlf_file
    packets_parsed,  \* DLFParser.packets_parsed
    errors,          \* DLFParser.errors
    src_records,     \* the record bodies the file was encoded from
    src_damage,      \* how the encoded file was damaged before parsing
    \* ---- StatisticalBaselineTracker (src/statistical_baseline_tracker.py) ----
    baselines,       \* (category, metric) -> the deque of observations
    statistics,      \* (category, metric) -> count, sum, sum_sq
    bl_call,         \* the last query made to the tracker and what it returned
    bl_feed,         \* the stream of observations the tracker is fed
    \* ---- TemporalPatternAnalyzer (src/temporal_pattern_analyzer.py) ----
    event_history,   \* the events recorded by add_event, for one event type
    tp_call,         \* the last analyze_event_rate call and what it returned
    tp_feed,         \* the stream of events the analyzer is fed
    \* ---- MLAnomalyDetector (src/ml_anomaly_detection.py) ----
    ml_disk,         \* models_dir and feature_history_dir: metadata.json,
                     \* accumulated_features.npy and the .pkl files
    ml_detector,     \* the detector object: retrain_threshold, metadata,
                     \* models_trained and its models
    ml_call,         \* the last call of the scorer and its result
    ml_files,        \* the feature matrices of all files analysed so far
    \* ---- ClickHouseFolderAnalyzer (src/folder_anomaly_analyzer_clickhouse.py) ----
    det_pc,          \* where process_single_file stands: the detector to run next
    det_file,        \* the file being processed
    det_anomalies,   \* the anomalies list of process_single_file
    det_caught,      \* the exception the last detector caught, if any
    det_feed,        \* the folder: its history files and how many are done
    \* ---- two MLAnomalyDetector processes (src/ml_anomaly_detection.py) ----
    sc_dirs,         \* models_dir and feature_history_dir, which they share
    sc_proc,         \* process -> where it stands and what it holds in memory
    sc_clock,        \* the last time datetime.now() gave
    sc_start,        \* the directories as they were at the start
    \* ---- EnhancedProtocolParser (src/enhanced_protocol_parser.py) ----
    ind_call,        \* the last extract_l1_indicators call and what it returned
    \* ---- MLAnomalyDetector.extract_pcap_features_basic ----
    fx_call          \* the packets handed over, their windows and the features

dlfVars == <<dlf_pc, file_content, buffer_pos, packets, packet_number,
             packets_parsed, errors, src_records, src_damage>>

blVars == <<baselines, statistics, bl_call, bl_feed>>

tpVars == <<event_history, tp_call, tp_feed>>

mlVars == <<ml_disk, ml_detector, ml_call, ml_files>>

detVars == <<det_pc, det_file, det_anomalies, det_caught, det_feed>>

scVars == <<sc_dirs, sc_proc, sc_clock, sc_start>>

indVars == <<ind_call>>

fxVars == <<fx_call>>

vars == <<dlfVars, blVars, tpVars, mlVars, detVars, scVars, indVars, fxVars>>

(***************************************************************************)
(* Generic helpers.                                                        *)
(***************************************************************************)
Min2(a, b) == IF a <= b THEN a ELSE b

Max2(a, b) == IF a >= b THEN a ELSE b

\* s[from+1 .. to] with Python's slice clamping: s[from:to]
PySlice(s, from, to) ==
    LET lo == Max2(0, from)
        hi == Min2(Len(s), to)
    IN  IF hi <= lo THEN <<>> ELSE SubSeq(s, lo + 1, hi)

RECURSIVE Flatten(_)
Flatten(ss) == IF ss = <<>> THEN <<>> ELSE Head(ss) \o Flatten(Tail(ss))

\* All sequences over S of length 0..n
SeqsUpTo(S, n) == UNION {[1..k -> S] : k \in 0..n}

(***************************************************************************)
(*                              DLF PARSER                                 *)
(***************************************************************************)

\* ---- bounds of the DLF inputs ----
MaxRecords == 3

\* struct.unpack('<H', b): 16-bit little-endian unsigned
UnpackU16(b) == b[1] + 256 * b[2]

\* struct.pack('<H', n), used to build the input files
PackU16(n) == <<n % 256, (n \div 256) % 256>>

\* The largest tick count t with QXDM_EPOCH + t * 1.25 ms <= datetime.max,
\* 202469068799999, as 8 little-endian bytes.
MaxTicksBytes == <<255, 127, 236, 0, 37, 184, 0, 0>>

\* a > b for two little-endian byte strings of equal length
RECURSIVE LEGreater(_, _)
LEGreater(a, b) ==
    IF a = <<>> THEN FALSE
    ELSE LET n == Len(a)
         IN  IF a[n] # b[n] THEN a[n] > b[n]
             ELSE LEGreater(SubSeq(a, 1, n - 1), SubSeq(b, 1, n - 1))

\* The wall clock: datetime.now()
Now == [kind |-> "now"]

\* QXDM_EPOCH + q quarter-milliseconds (one tick of 1.25 ms is 5 of them)
EpochPlus(q) == [kind |-> "qxdm", qms |-> q]

parse_qxdm_timestamp(timestamp_bytes) ==
    LET b == timestamp_bytes
    IN  IF Len(b) >= 8 /\ (\E i \in 1..8 : b[i] # 0)
        THEN IF LEGreater(SubSeq(b, 1, 8), MaxTicksBytes)
             THEN [time |-> Now, errs |-> <<"Timestamp parse error">>]
             ELSE IF \A i \in 4..8 : b[i] = 0
                  THEN [time |-> EpochPlus(5 * (b[1] + 256 * b[2] + 65536 * b[3])),
                        errs |-> <<>>]
                  ELSE [time |-> [kind |-> "qxdm_wide", ticks |-> SubSeq(b, 1, 8)],
                        errs |-> <<>>]
        ELSE [time |-> Now, errs |-> <<>>]

NoPacket == [kind |-> "none"]

\* QXDMPacket.__init__
QXDMPacket(timestamp, message_id, payload, number) ==
    [kind |-> "packet", timestamp |-> timestamp, message_id |-> message_id,
     payload |-> payload, packet_number |-> number]

\* DLFParser.parse_packet: the packet (or None) and the errors appended on the way
LowByteOnly(packet_data, number) ==
    IF Len(packet_data) < 4
    THEN [packet |-> NoPacket, errs |-> <<>>]
    ELSE LET ts == IF Len(packet_data) >= 12
                   THEN parse_qxdm_timestamp(PySlice(packet_data, 4, 12))
                   ELSE [time |-> Now, errs |-> <<>>]
         IN  [packet |-> QXDMPacket(ts.time, packet_data[1], packet_data, number),
              errs |-> ts.errs]

parse_packet(packet_data, number) ==
    IF Len(packet_data) < 4
    THEN [packet |-> NoPacket, errs |-> <<>>]
    ELSE LET low == packet_data[1]
             message_id == IF Len(packet_data) > 1
                           THEN low + 256 * packet_data[2]
                           ELSE low
             ts == IF Len(packet_data) >= 12
                   THEN parse_qxdm_timestamp(PySlice(packet_data, 4, 12))
                   ELSE [time |-> Now, errs |-> <<>>]
         IN  [packet |-> QXDMPacket(ts.time, message_id, packet_data, number),
              errs |-> ts.errs]

\* ---- the input files ----
TicksZero == <<0, 0, 0, 0, 0, 0, 0, 0>>
TicksOne == <<1, 0, 0, 0, 0, 0, 0, 0>>
Ticks800 == <<32, 3, 0, 0, 0, 0, 0, 0>>
TicksBeyond == <<0, 0, 0, 0, 0, 0, 0, 255>>

\* Record bodies: empty, shorter than the 4 header bytes, header only, and
\* with a timestamp (12 bytes and more).
Bodies ==
    { <<>>,
      <<7>>,
      <<7, 1, 0>>,
      <<1, 2, 9, 9>>,
      <<5, 0, 0, 0>> \o TicksZero,
      <<5, 0, 0, 0>> \o Ticks800,
      <<3, 1, 0, 0>> \o TicksOne \o <<4>>,
      <<5, 0, 0, 0>> \o TicksBeyond }

\* One record on disk: 2-byte length that includes itself, then the body
EncodeRecord(body) == PackU16(Len(body) + 2) \o body

EncodeFile(recs) == Flatten([i \in 1..Len(recs) |-> EncodeRecord(recs[i])])

\* Offset of record c in the encoded file
RecordOffset(recs, c) == Len(EncodeFile(SubSeq(recs, 1, c - 1)))

NoDamage == [kind |-> "none", at |-> 0, arg |-> 0]

\* Ways a file is damaged: the length field of record `at` overwritten by
\* `arg`, or the file cut `arg` bytes before the end of record `at`.
Damages(recs) ==
    {NoDamage}
    \cup {[kind |-> "length", at |-> c, arg |-> v] :
            c \in 1..Len(recs), v \in {0, 1, 65535}}
    \cup {[kind |-> "cut", at |-> c, arg |-> k] :
            c \in {c \in 1..Len(recs) : Len(recs[c]) >= 1}, k \in {1}}
    \cup {[kind |-> "stray", at |-> c, arg |-> 1] : c \in 1..Len(recs)}

DamagedFile(recs, d) ==
    LET whole == EncodeFile(recs)
        off == RecordOffset(recs, d.at)
    IN  CASE d.kind = "none" -> whole
          [] d.kind = "length" ->
                [i \in 1..Len(whole) |->
                    IF i = off + 1 THEN PackU16(d.arg)[1]
                    ELSE IF i = off + 2 THEN PackU16(d.arg)[2]
                    ELSE whole[i]]
          [] d.kind = "cut" ->
                SubSeq(whole, 1, off + 2 + Len(recs[d.at]) - d.arg)
          [] d.kind = "stray" -> SubSeq(whole, 1, off + 1)

\* ---- parse_dlf_file ----
DlfInit ==
    /\ dlf_pc = "idle"
    /\ file_content = <<>>
    /\ buffer_pos = 0
    /\ packets = <<>>
    /\ packet_number = 0
    /\ packets_parsed = 0
    /\ errors = <<>>
    /\ src_records = <<>>
    /\ src_damage = NoDamage

\* The files handed to the parser: any file to a new parser, a file of at
\* most one record to a parser that has already parsed one.
InputRecords ==
    IF dlf_pc = "idle" THEN SeqsUpTo(Bodies, MaxRecords) ELSE SeqsUpTo(Bodies, 1)

\* parse_dlf_file that keeps the error list and the counter of the call before
KeepsErrorsOfEarlierFiles ==
    /\ dlf_pc \in {"idle", "done"}
    /\ \E recs \in InputRecords :
         \E d \in Damages(recs) :
            /\ src_records' = recs
            /\ src_damage' = d
            /\ file_content' = DamagedFile(recs, d)
    /\ packets' = <<>>
    /\ UNCHANGED <<packets_parsed, errors>>
    /\ buffer_pos' = 0
    /\ packet_number' = 0
    /\ dlf_pc' = "scanning"

\* parse_dlf_file up to the loop: reset the counters, read the file
ParseDlfFileBegin ==
    /\ dlf_pc \in {"idle", "done"}
    /\ \E recs \in InputRecords :
         \E d \in Damages(recs) :
            /\ src_records' = recs
            /\ src_damage' = d
            /\ file_content' = DamagedFile(recs, d)
    /\ packets' = <<>>
    /\ packets_parsed' = 0
    /\ errors' = <<>>
    /\ buffer_pos' = 0
    /\ packet_number' = 0
    /\ dlf_pc' = "scanning"

\* The framing check on the declared length (it includes its own 2 bytes)
AcceptsLengthOne(packet_length) == packet_length < 1 \/ packet_length > 65535

InvalidLength(packet_length) == packet_length < 2 \/ packet_length > 65535

\* What one pass of the `while True` loop does, from the state it starts in
LoopPass ==
    LET length_bytes == PySlice(file_content, buffer_pos, buffer_pos + 2)
        after_len == buffer_pos + Len(length_bytes)
        stop(errs) == [pc |-> "done", pos |-> after_len, packets |-> packets,
                       number |-> packet_number, parsed |-> packets_parsed,
                       errors |-> errs]
    IN  IF Len(length_bytes) < 2
        THEN stop(errors)
        ELSE LET packet_length == UnpackU16(length_bytes)
             IN  IF InvalidLength(packet_length)
                 THEN stop(Append(errors, "Invalid packet length"))
                 ELSE LET packet_data ==
                              PySlice(file_content, after_len, after_len + packet_length - 2)
                          after_data == after_len + Len(packet_data)
                      IN  IF Len(packet_data) < packet_length - 2
                          THEN [stop(Append(errors, "Incomplete packet"))
                                    EXCEPT !.pos = after_data]
                          ELSE LET r == parse_packet(packet_data, packet_number)
                               IN  IF r.packet # NoPacket
                                   THEN [pc |-> "scanning", pos |-> after_data,
                                         packets |-> Append(packets, r.packet),
                                         number |-> packet_number + 1,
                                         parsed |-> packets_parsed + 1,
                                         errors |-> errors \o r.errs]
                                   ELSE [pc |-> "scanning", pos |-> after_data,
                                         packets |-> packets,
                                         number |-> packet_number,
                                         parsed |-> packets_parsed,
                                         errors |-> errors \o r.errs]

\* One pass of the loop of parse_dlf_file; a `break` ends the call
ParseDlfFileStep ==
    /\ dlf_pc = "scanning"
    /\ LET n == LoopPass
       IN  /\ dlf_pc' = n.pc
           /\ buffer_pos' = n.pos
           /\ packets' = n.packets
           /\ packet_number' = n.number
           /\ packets_parsed' = n.parsed
           /\ errors' = n.errors
    /\ UNCHANGED <<file_content, src_records, src_damage>>

DlfNext == ParseDlfFileBegin \/ ParseDlfFileStep

(***************************************************************************)
(* Properties of the DLF parser.                                           *)
(***************************************************************************)
DlfDone == dlf_pc = "done"

\* The records of a sequence that carry the 4 header bytes, in order
LongRecords(recs) == SelectSeq(recs, LAMBDA b : Len(b) >= 4)

\* The returned packets are exactly the records `recs`, in order, each with
\* the message id body[0] | (body[1] << 8)
PacketsAre(recs) ==
    /\ Len(packets) = Len(recs)
    /\ \A i \in 1..Len(recs) :
          /\ packets[i].payload = recs[i]
          /\ packets[i].message_id = recs[i][1] + 256 * recs[i][2]

FramingErrors == {"Invalid packet length", "Incomplete packet"}

\* The file holds a record whose declared length is invalid or whose body
\* is shorter than declared
BadRecord ==
    \/ src_damage.kind = "length"
    \/ src_damage.kind = "cut"

\* C2: at a record with an invalid declared length (< 2) or a body shorter
\* than declared the scan stops: exactly one framing error is recorded
\* (and it is the last error), no later record is decoded, and the packets
\* of the preceding records are returned unchanged and in order.
C2_StopsAtBadRecord ==
    (DlfDone /\ BadRecord) =>
        LET before == SubSeq(src_records, 1, src_damage.at - 1)
            framing == SelectSeq(errors, LAMBDA e : e \in FramingErrors)
        IN  /\ PacketsAre(LongRecords(before))
            /\ Len(framing) = 1
            /\ errors # <<>> /\ errors[Len(errors)] = framing[1]
            /\ framing[1] = (IF src_damage.kind = "length" /\ src_damage.arg < 2
                             THEN "Invalid packet length"
                             ELSE "Incomplete packet")

C2_Witness ==
    /\ DlfDone
    /\ src_damage.kind = "length"
    /\ src_damage.arg = 1
    /\ src_damage.at = 2
    /\ Len(src_records) = 3
    /\ Len(src_records[3]) >= 4
    /\ Len(packets) = 1
    /\ errors = <<"Invalid packet length">>

\* The returned packets whose timestamp bytes could not be converted
UnconvertiblePackets ==
    {i \in 1..Len(packets) :
        /\ Len(packets[i].payload) >= 12
        /\ LEGreater(SubSeq(packets[i].payload, 5, 12), MaxTicksBytes)}

\* The state a call of parse_dlf_file ends in: the counter is the number of
\* packets, the packet numbers are 0, 1, ... without a gap, and the errors
\* are those of this file: one per unconvertible timestamp and the framing
\* error of the bad record, if there is one
CallResultOfThisFile ==
    /\ packets_parsed = Len(packets)
    /\ \A i \in 1..Len(packets) : packets[i].packet_number = i - 1
    /\ Len(SelectSeq(errors, LAMBDA e : e = "Timestamp parse error"))
          = Cardinality(UnconvertiblePackets)
    /\ Len(SelectSeq(errors, LAMBDA e : e \in FramingErrors))
          = (IF BadRecord THEN 1 ELSE 0)
    /\ Len(errors) <= Cardinality(UnconvertiblePackets) + 1

\* C30: after every call of parse_dlf_file packets_parsed is the number of
\* packets returned, the packets carry the numbers 0, 1, ..., n-1 in order
\* (a record that yields no packet consumes no number), and the error list
\* holds only errors of this call: a call starts with an empty list and a
\* zero counter, also after a file that left errors.
C30_CallResultIsOfThisCall ==
    [][/\ dlf_pc' = "done" => CallResultOfThisFile'
       /\ (dlf_pc \in {"idle", "done"} /\ dlf_pc' = "scanning") =>
             (errors' = <<>> /\ packets_parsed' = 0 /\ packet_number' = 0)]_vars

\* A file whose first record is too short for a packet, whose second has an
\* unconvertible timestamp and whose third is cut: two errors, one packet,
\* numbered 0
C30_Witness ==
    /\ DlfDone
    /\ Len(src_records) = 3 /\ Len(src_records[1]) \in 1..3
    /\ src_damage.kind = "cut" /\ src_damage.at = 3
    /\ Len(packets) = 1 /\ packets[1].packet_number = 0 /\ packets_parsed = 1
    /\ errors = <<"Timestamp parse error", "Incomplete packet">>

\* C3 as stated: a packet decoded from a body of at least 12 bytes has the
\* timestamp epoch + ticks * 1.25 ms, ticks being the little-endian value
\* of body bytes 4..12; tick 0 gives the epoch itself and tick 800 the
\* epoch plus one second (4000 quarter-milliseconds).  Stated for the tick
\* counts below 2^24.
C3_TimestampIsEpochPlusTicks ==
    \A i \in 1..Len(packets) :
        LET b == packets[i].payload
        IN  (Len(b) >= 12 /\ \A k \in 8..12 : b[k] = 0) =>
                packets[i].timestamp =
                    EpochPlus(5 * (b[5] + 256 * b[6] + 65536 * b[7]))

\* The part of C3 the code does satisfy: tick 800 gives epoch + 1 s
C3_Tick800IsOneSecond ==
    \A i \in 1..Len(packets) :
        PySlice(packets[i].payload, 4, 12) = Ticks800 =>
            packets[i].timestamp = EpochPlus(4000)


(***************************************************************************)
(*                     FLOATING-POINT ARITHMETIC                           *)
(* A float is an integer count of 1/Scale units in -FloatMax..FloatMax,    *)
(* or one of +inf, -inf, nan.  A result beyond FloatMax overflows to an    *)
(* infinity and inf - inf, inf / inf, 0 * inf are nan, as in IEEE 754;     *)
(* rounding is towards zero at 1/Scale.                                    *)
(***************************************************************************)
Scale == 100

FloatMax == 1000000

PInf == FloatMax + 1

NInf == 0 - (FloatMax + 1)

NaN == FloatMax + 2

IsInf(x) == x = PInf \/ x = NInf

IsFinite(x) == x >= 0 - FloatMax /\ x <= FloatMax

Saturate(n) == IF n > FloatMax THEN PInf ELSE IF n < 0 - FloatMax THEN NInf ELSE n

IAbs(n) == IF n < 0 THEN 0 - n ELSE n

Sign(n) == IF n < 0 THEN 0 - 1 ELSE IF n > 0 THEN 1 ELSE 0

FNeg(a) == IF a = NaN THEN NaN ELSE 0 - a

FAbs(a) == IF a = NaN THEN NaN ELSE IAbs(a)

FAdd(a, b) ==
    IF a = NaN \/ b = NaN THEN NaN
    ELSE IF IsInf(a) /\ IsInf(b) THEN (IF a = b THEN a ELSE NaN)
    ELSE IF IsInf(a) THEN a
    ELSE IF IsInf(b) THEN b
    ELSE Saturate(a + b)

FSub(a, b) == FAdd(a, FNeg(b))

FMul(a, b) ==
    IF a = NaN \/ b = NaN THEN NaN
    ELSE IF a = 0 \/ b = 0 THEN (IF IsInf(a) \/ IsInf(b) THEN NaN ELSE 0)
    ELSE IF IsInf(a) \/ IsInf(b) THEN (IF Sign(a) = Sign(b) THEN PInf ELSE NInf)
    ELSE IF IAbs(a) > (FloatMax * Scale) \div IAbs(b)
         THEN (IF Sign(a) = Sign(b) THEN PInf ELSE NInf)
         ELSE Sign(a) * Sign(b) * ((IAbs(a) * IAbs(b)) \div Scale)

FDiv(a, b) ==
    IF a = NaN \/ b = NaN THEN NaN
    ELSE IF IsInf(a) /\ IsInf(b) THEN NaN
    ELSE IF IsInf(a) THEN (IF Sign(a) * Sign(b) < 0 THEN NInf ELSE PInf)
    ELSE IF IsInf(b) THEN 0
    ELSE IF b = 0 THEN (IF a = 0 THEN NaN ELSE IF a > 0 THEN PInf ELSE NInf)
    ELSE Saturate(Sign(a) * Sign(b) * ((IAbs(a) * Scale) \div IAbs(b)))

\* Comparisons: every comparison with nan is false
FLt(a, b) == a # NaN /\ b # NaN /\ a < b

FGt(a, b) == a # NaN /\ b # NaN /\ a > b

\* Python's min(a, b) and max(a, b): b if b < a (b > a), else a
PyMin(a, b) == IF FLt(b, a) THEN b ELSE a

PyMax(a, b) == IF FGt(b, a) THEN b ELSE a

\* floor(sqrt(n)) for an integer n >= 0, by bisection on lo..hi
RECURSIVE ISqrtIn(_, _, _)
ISqrtIn(n, lo, hi) ==
    IF lo >= hi THEN lo
    ELSE LET mid == (lo + hi + 1) \div 2
         IN  IF mid <= n \div mid THEN ISqrtIn(n, mid, hi) ELSE ISqrtIn(n, lo, mid - 1)

ISqrt(n) == IF n <= 0 THEN 0 ELSE ISqrtIn(n, 1, n)

FSqrt(a) ==
    IF a = NaN \/ a < 0 THEN NaN
    ELSE IF a = PInf THEN PInf
    ELSE ISqrt(a * Scale)

\* An integer as a float
FInt(n) == Saturate(n * Scale)

\* data[lo] + ... + data[hi], added pairwise as numpy's reduction does
RECURSIVE FSumIn(_, _, _)
FSumIn(data, lo, hi) ==
    IF lo > hi THEN 0
    ELSE IF lo = hi THEN data[lo]
    ELSE LET mid == (lo + hi) \div 2
         IN  FAdd(FSumIn(data, lo, mid), FSumIn(data, mid + 1, hi))

FSum(data) == FSumIn(data, 1, Len(data))

\* numpy.mean and numpy.std of a non-empty list
NpMean(data) == FDiv(FSum(data), FInt(Len(data)))

NpStd(data) ==
    LET m == NpMean(data)
        sq == [i \in 1..Len(data) |-> FMul(FSub(data[i], m), FSub(data[i], m))]
    IN  FSqrt(NpMean(sq))

(***************************************************************************)
(*                       STATISTICAL BASELINE TRACKER                      *)
(***************************************************************************)

\* ---- bounds of the tracker's inputs ----
\* The window_size the tracker is constructed with (1000 by default)
WindowSize == 32

\* How many observations a feed adds beyond the capacity of its deque
ExtraInserts == 2

\* The longest first run of the feed of a slow-changing aggregate
SlowFirstRun == 2

\* deque(maxlen=100) of the slow-changing aggregates
SlowCapacity == 100

\* The number of observations from which the history is used
MinSamples == 30

\* self.baselines: the metrics tracked per category
TrackedMetrics ==
    [rach |-> {"success_rate", "attempt_count", "avg_attempts_per_file"},
     handover |-> {"success_rate", "attempt_count", "avg_duration"},
     harq |-> {"retransmission_rate", "avg_retx_per_window", "max_consecutive_retx"},
     crc |-> {"error_rate", "errors_per_1000_packets"},
     rrc |-> {"connection_success_rate", "setup_attempts"},
     timing_advance |-> {"violation_rate", "avg_ta_adjustments"},
     power_control |-> {"adjustment_frequency", "avg_power_changes"},
     general |-> {"packet_inter_arrival_time", "packet_size", "jitter"}]

Categories == DOMAIN TrackedMetrics

Keys == UNION {{<<c, m>> : m \in TrackedMetrics[c]} : c \in Categories}

SlowKeys == {<<"rach", "avg_attempts_per_file">>, <<"crc", "errors_per_1000_packets">>}

\* maxlen of the deque of a tracked metric
Capacity(key) == IF key \in SlowKeys THEN SlowCapacity ELSE WindowSize

\* _initialize_default_thresholds, in 1/Scale units
DefaultThresholds ==
    [rach |-> [max_attempts_threshold |-> 1000, min_success_rate |-> 80,
               excessive_attempts_multiplier |-> 200],
     handover |-> [min_success_rate |-> 85, max_failure_rate |-> 15],
     harq |-> [max_retx_per_window |-> 500, max_retx_rate |-> 20,
               excessive_retx_multiplier |-> 250],
     crc |-> [max_error_rate |-> 1, errors_per_1000_threshold |-> 1000],
     rrc |-> [min_success_rate |-> 90, max_rejection_rate |-> 10],
     timing_advance |-> [max_violation_rate |-> 5, ta_range_min |-> 0 - 3100,
                         ta_range_max |-> 3100],
     power_control |-> [max_adjustment_frequency |-> 30,
                        power_delta_threshold |-> 1000]]

\* deque.append on a deque with maxlen cap
KeepsOldest(d, cap, value) == IF Len(d) >= cap THEN d ELSE Append(d, value)

DequeAppend(d, cap, value) ==
    IF Len(d) >= cap THEN Append(Tail(d), value) ELSE Append(d, value)

None == [some |-> FALSE, val |-> 0]

Some(x) == [some |-> TRUE, val |-> x]

get_adaptive_threshold(h, anomaly_type, metric_name, num_std) ==
    IF anomaly_type \notin Categories THEN None
    ELSE IF metric_name \notin TrackedMetrics[anomaly_type] THEN None
    ELSE LET data == h[<<anomaly_type, metric_name>>]
         IN  IF Len(data) < MinSamples
             THEN IF anomaly_type \in DOMAIN DefaultThresholds
                       /\ metric_name \in DOMAIN DefaultThresholds[anomaly_type]
                  THEN Some(DefaultThresholds[anomaly_type][metric_name])
                  ELSE None
             ELSE Some(FAdd(NpMean(data), FMul(num_std, NpStd(data))))

\* The default_thresholds table of is_anomalous: dict.get(metric_name, 1.0)
BuiltinThreshold(metric_name) ==
    CASE metric_name = "success_rate" -> 80
      [] metric_name = "error_rate" -> 5
      [] metric_name = "retransmission_rate" -> 15
      [] metric_name = "attempt_count" -> 1000
      [] OTHER -> 100

\* The metric names the model uses, with the words `in` finds in them
NameHasRate ==
    {"success_rate", "error_rate", "retransmission_rate", "connection_success_rate",
     "violation_rate", "min_success_rate"}

NameHasSuccess ==
    {"success_rate", "connection_success_rate", "min_success_rate", "success_count"}

\* threshold = default_thresholds.get(metric_name, 1.0) if threshold is None
ThresholdOrBuiltin(t, metric_name) ==
    IF t.some THEN t.val ELSE BuiltinThreshold(metric_name)

\* The deviation score against a history with the mean and std given
HistoryDeviation(value, mean, std) ==
    IF FGt(std, 0)
    THEN FDiv(FAbs(FDiv(FSub(value, mean), std)), 3 * Scale)
    ELSE FAbs(FSub(value, mean))

\* deviation_score of is_anomalous
DeviationScore(data, value, threshold) ==
    IF Len(data) >= MinSamples
    THEN HistoryDeviation(value, NpMean(data), NpStd(data))
    ELSE IF FGt(threshold, 0)
         THEN FDiv(FAbs(FSub(value, threshold)), threshold)
         ELSE 0

\* The comparison of the value with the threshold the metric's name asks for
BeyondThreshold(metric_name, value, threshold) ==
    IF metric_name \in NameHasRate
    THEN IF metric_name \in NameHasSuccess
         THEN FLt(value, threshold)
         ELSE FGt(value, threshold)
    ELSE FGt(value, threshold)

\* severity of is_anomalous
SeverityLevel(anomalous, deviation_score, severity_multiplier) ==
    IF anomalous
    THEN IF FGt(deviation_score, FMul(2 * Scale, severity_multiplier)) THEN "critical"
         ELSE IF FGt(deviation_score, FMul((3 * Scale) \div 2, severity_multiplier))
              THEN "high"
         ELSE IF FGt(deviation_score, FMul(Scale, severity_multiplier)) THEN "medium"
         ELSE "low"
    ELSE "low"

\* is_anomalous with the severity taken from the capped deviation
VerdictOnCapped(anomalous, deviation_score, severity_multiplier) ==
    [raised |-> "", anomalous |-> anomalous,
     deviation |-> PyMin(deviation_score, Scale),
     severity |-> SeverityLevel(anomalous, PyMin(deviation_score, Scale),
                                severity_multiplier)]

\* The tuple is_anomalous returns
Verdict(anomalous, deviation_score, severity_multiplier) ==
    [raised |-> "", anomalous |-> anomalous,
     deviation |-> PyMin(deviation_score, Scale),
     severity |-> SeverityLevel(anomalous, deviation_score, severity_multiplier)]

\* is_anomalous once the threshold and the history are at hand
CompareWithBaseline(data, metric_name, value, severity_multiplier, threshold) ==
    Verdict(BeyondThreshold(metric_name, value, threshold),
            DeviationScore(data, value, threshold), severity_multiplier)

\* is_anomalous on the histories h: (is_anomalous, deviation_score, severity),
\* or the KeyError of self.baselines[anomaly_type] for an untracked category
is_anomalous(h, anomaly_type, metric_name, value, severity_multiplier) ==
    IF anomaly_type \notin Categories
    THEN [raised |-> "KeyError", anomalous |-> FALSE, deviation |-> 0, severity |-> "low"]
    ELSE CompareWithBaseline(
             IF metric_name \in TrackedMetrics[anomaly_type]
             THEN h[<<anomaly_type, metric_name>>] ELSE <<>>,
             metric_name, value, severity_multiplier,
             ThresholdOrBuiltin(
                 get_adaptive_threshold(h, anomaly_type, metric_name, 2 * Scale),
                 metric_name))

\* ---- the observations fed to the tracker ----
\* 0.5, 12.0 and a value so large that the sum of two of them overflows
ValueLow == 50

ValueHigh == 1200

ValueHuge == 600000

FeedPairs ==
    {<<ValueLow, ValueHigh>>, <<ValueHigh, ValueLow>>,
     <<ValueLow, ValueHuge>>, <<ValueHuge, ValueLow>>}

\* A feed: the metric it is for and the two values it consists of, a run of
\* `first` of at most max_first observations followed by a run of `then`;
\* bl_feed.n_first counts the observations of the first run made so far
Feeds ==
    {[key |-> <<"rach", "success_rate">>, first |-> p[1], then |-> p[2],
      max_first |-> WindowSize + ExtraInserts] : p \in FeedPairs}
    \cup {[key |-> <<"rach", "avg_attempts_per_file">>, first |-> ValueLow,
           then |-> ValueHigh, max_first |-> SlowFirstRun]}

NoCall == [op |-> "none"]

\* StatisticalBaselineTracker.__init__, fed by the feeds F
BlInitWith(F) ==
    /\ baselines = [k \in Keys |-> <<>>]
    /\ statistics = [k \in Keys |-> [count |-> 0, sum |-> 0, sum_sq |-> 0]]
    /\ bl_call = NoCall
    /\ bl_feed \in {[f |-> f, phase |-> 1, n_first |-> 0] : f \in F}

BlInit == BlInitWith(Feeds)

\* The tracker as constructed, where it is not the component under study
BlIdle == BlInitWith({CHOOSE f \in Feeds : f.max_first = SlowFirstRun})

\* update_baseline that appends the observation twice
AppendsTwice(trk, anomaly_type, metric_name, value) ==
    IF anomaly_type \in Categories /\ metric_name \in TrackedMetrics[anomaly_type]
    THEN LET key == <<anomaly_type, metric_name>>
             st == trk.statistics[key]
         IN  [baselines |-> [trk.baselines EXCEPT
                                ![key] = DequeAppend(DequeAppend(@, Capacity(key), value),
                                                     Capacity(key), value)],
              statistics |-> [trk.statistics EXCEPT
                                ![key] = [count |-> st.count + 2,
                                          sum |-> FAdd(st.sum, FAdd(value, value)),
                                          sum_sq |-> FAdd(st.sum_sq,
                                                          FMul(2 * Scale,
                                                               FMul(value, value)))]]]
    ELSE trk

\* update_baseline(anomaly_type, metric_name, value) on the tracker state
\* trk = [baselines, statistics]: the tracker state afterwards
update_baseline(trk, anomaly_type, metric_name, value) ==
    IF anomaly_type \in Categories /\ metric_name \in TrackedMetrics[anomaly_type]
    THEN LET key == <<anomaly_type, metric_name>>
             st == trk.statistics[key]
         IN  [baselines |-> [trk.baselines EXCEPT
                                ![key] = DequeAppend(@, Capacity(key), value)],
              statistics |-> [trk.statistics EXCEPT
                                ![key] = [count |-> st.count + 1,
                                          sum |-> FAdd(st.sum, value),
                                          sum_sq |-> FAdd(st.sum_sq, FMul(value, value))]]]
    ELSE trk

TheTracker == [baselines |-> baselines, statistics |-> statistics]

SetTracker(trk) ==
    /\ baselines' = trk.baselines
    /\ statistics' = trk.statistics

\* update_baseline with the next observation of the feed
UpdateBaseline ==
    /\ statistics[bl_feed.f.key].count < Capacity(bl_feed.f.key) + ExtraInserts
    /\ \E ph \in {IF bl_feed.n_first < bl_feed.f.max_first THEN bl_feed.phase ELSE 2, 2} :
         /\ bl_feed' = [bl_feed EXCEPT !.phase = ph,
                                      !.n_first = IF ph = 1 THEN @ + 1 ELSE @]
         /\ SetTracker(update_baseline(TheTracker, bl_feed.f.key[1], bl_feed.f.key[2],
                                       IF ph = 1 THEN bl_feed.f.first ELSE bl_feed.f.then))
    /\ bl_call' = NoCall

\* update_baseline for a metric the tracker does not track: nothing happens
UpdateUntracked ==
    /\ bl_call # NoCall
    /\ \E k \in {<<"rach", "min_success_rate">>, <<"ue", "success_rate">>} :
         SetTracker(update_baseline(TheTracker, k[1], k[2], ValueLow))
    /\ bl_call' = NoCall
    /\ UNCHANGED bl_feed

\* get_adaptive_threshold(anomaly_type, metric_name) with num_std = 2.0
GetAdaptiveThreshold ==
    /\ bl_call = NoCall
    /\ \E m \in {bl_feed.f.key[2], "min_success_rate"} :
         bl_call' = [op |-> "get_adaptive_threshold",
                     anomaly_type |-> bl_feed.f.key[1], metric_name |-> m,
                     result |-> get_adaptive_threshold(baselines, bl_feed.f.key[1], m,
                                                       2 * Scale)]
    /\ UNCHANGED <<baselines, statistics, bl_feed>>

\* severity_multiplier: the default 1.0, and 4.0
SeverityMultipliers == {Scale, 4 * Scale}

\* is_anomalous(anomaly_type, metric_name, value, severity_multiplier)
IsAnomalous ==
    /\ bl_call = NoCall
    /\ \E m \in {bl_feed.f.key[2], "attempt_count", "success_count",
                  "connection_success_rate"},
          v \in {ValueLow, ValueHigh}, mult \in SeverityMultipliers :
         bl_call' = [op |-> "is_anomalous",
                     anomaly_type |-> bl_feed.f.key[1], metric_name |-> m, value |-> v,
                     severity_multiplier |-> mult,
                     result |-> is_anomalous(baselines, bl_feed.f.key[1], m, v, mult)]
    /\ UNCHANGED <<baselines, statistics, bl_feed>>

\* reset_baselines
ResetBaselines ==
    /\ baselines' = [k \in Keys |-> <<>>]
    /\ statistics' = [k \in Keys |-> [count |-> 0, sum |-> 0, sum_sq |-> 0]]
    /\ bl_call' = NoCall
    /\ bl_feed' = [bl_feed EXCEPT !.phase = 1, !.n_first = 0]

BlNext ==
    \/ UpdateBaseline
    \/ UpdateUntracked
    \/ GetAdaptiveThreshold
    \/ IsAnomalous
    \/ ResetBaselines

(***************************************************************************)
(* Properties of the baseline tracker.                                     *)
(***************************************************************************)
\* The i-th observation the feed has made for its metric
FedValue(i) == IF i <= bl_feed.n_first THEN bl_feed.f.first ELSE bl_feed.f.then

\* The last n of the `count` observations made, oldest first
LastFed(count, n) == [i \in 1..n |-> FedValue(count - n + i)]

\* C4: the history of every tracked (category, metric) holds at most its
\* capacity (window_size, or 100 for the slow-changing aggregates) and is
\* exactly the most recent accepted observations in insertion order, so an
\* insert at capacity evicts the oldest one and nothing else.
C4_HistoryIsBoundedFifo ==
    \A key \in Keys :
        LET count == statistics[key].count
            n == Min2(count, Capacity(key))
        IN  /\ Len(baselines[key]) <= Capacity(key)
            /\ Len(baselines[key]) = n
            /\ key = bl_feed.f.key => baselines[key] = LastFed(count, n)
            /\ key # bl_feed.f.key => baselines[key] = <<>>

C4_Witness ==
    \E key \in SlowKeys :
        /\ statistics[key].count = Capacity(key) + 1
        /\ Len(baselines[key]) = SlowCapacity
        /\ bl_feed.n_first = 2
        /\ baselines[key][1] = bl_feed.f.first
        /\ baselines[key][2] = bl_feed.f.then

IsThresholdCall ==
    /\ bl_call.op = "get_adaptive_threshold"
    /\ <<bl_call.anomaly_type, bl_call.metric_name>> \in Keys

\* C5 as stated: for a tracked (category, metric) with fewer than 30 stored
\* samples get_adaptive_threshold returns a static default configured for
\* the category; from the 30th sample on it returns a value derived from
\* the stored history.
C5_StaticDefaultBelowMinSamples ==
    IsThresholdCall =>
        LET cat == bl_call.anomaly_type
            data == baselines[<<cat, bl_call.metric_name>>]
        IN  IF Len(data) < MinSamples
            THEN /\ bl_call.result.some
                 /\ cat \in DOMAIN DefaultThresholds
                 /\ \E n \in DOMAIN DefaultThresholds[cat] :
                        bl_call.result.val = DefaultThresholds[cat][n]
            ELSE bl_call.result.some

\* What the code does instead: below 30 samples the result for a tracked
\* metric is None, from 30 samples on it is a number that is at least the
\* smallest stored observation (or inf / nan after an overflow).
C5_NoneBelowMinSamples ==
    IsThresholdCall =>
        LET data == baselines[<<bl_call.anomaly_type, bl_call.metric_name>>]
        IN  IF Len(data) < MinSamples
            THEN bl_call.result = None
            ELSE /\ bl_call.result.some
                 /\ \/ ~IsFinite(bl_call.result.val)
                    \/ \E i \in 1..Len(data) : data[i] <= bl_call.result.val

\* C6 as stated: the deviation score is_anomalous returns for a tracked
\* category lies in [0, 1], whatever the metric name, the (finite) value
\* and the history.
C6_DeviationInUnitInterval ==
    (bl_call.op = "is_anomalous" /\ bl_call.result.raised = "") =>
        /\ bl_call.result.deviation # NaN
        /\ bl_call.result.deviation >= 0
        /\ bl_call.result.deviation <= Scale

\* The part of C6 the code does satisfy: with no stored observation large
\* enough to overflow the sum, the deviation is in [0, 1]
C6_DeviationInUnitIntervalNoOverflow ==
    (/\ bl_call.op = "is_anomalous"
     /\ bl_call.result.raised = ""
     /\ \A key \in Keys : \A i \in 1..Len(baselines[key]) : baselines[key][i] < ValueHuge) =>
        /\ bl_call.result.deviation >= 0
        /\ bl_call.result.deviation <= Scale

\* ---- the last call, where it is one of is_anomalous ----
IsVerdict == bl_call.op = "is_anomalous" /\ bl_call.result.raised = ""

\* The history and the threshold the call compared the value with
CallData ==
    IF bl_call.metric_name \in TrackedMetrics[bl_call.anomaly_type]
    THEN baselines[<<bl_call.anomaly_type, bl_call.metric_name>>] ELSE <<>>

CallThreshold ==
    ThresholdOrBuiltin(get_adaptive_threshold(baselines, bl_call.anomaly_type,
                                              bl_call.metric_name, 2 * Scale),
                       bl_call.metric_name)

\* C19 as stated: for every metric name, a name containing "success" makes
\* the value anomalous exactly when it is below the threshold, any other
\* name exactly when it is above.
C19_SuccessNamesAnomalousBelow ==
    IsVerdict =>
        (bl_call.result.anomalous <=>
            IF bl_call.metric_name \in NameHasSuccess
            THEN FLt(bl_call.value, CallThreshold)
            ELSE FGt(bl_call.value, CallThreshold))

\* The default of the specification's table for the pattern a name matches
PatternDefault(metric_name) ==
    CASE metric_name \in {"success_rate", "connection_success_rate", "min_success_rate"} -> 80
      [] metric_name = "error_rate" -> 5
      [] metric_name = "retransmission_rate" -> 15
      [] metric_name = "attempt_count" -> 1000

PatternNames ==
    {"success_rate", "connection_success_rate", "min_success_rate", "error_rate",
     "retransmission_rate", "attempt_count"}

\* C21 as stated: when get_adaptive_threshold has no threshold for the
\* metric, neither from the history nor a static one, is_anomalous compares
\* with the default of the pattern the name matches (0.80 for every name
\* containing success_rate): the deviation it returns is the distance of the
\* value from that default, relative to it, capped at 1.0.
C21_DefaultByNamePattern ==
    (/\ IsVerdict
     /\ bl_call.metric_name \in PatternNames
     /\ ~get_adaptive_threshold(baselines, bl_call.anomaly_type, bl_call.metric_name,
                                2 * Scale).some) =>
        /\ CallThreshold = PatternDefault(bl_call.metric_name)
        /\ bl_call.result.deviation =
              PyMin(FDiv(FAbs(FSub(bl_call.value, PatternDefault(bl_call.metric_name))),
                         PatternDefault(bl_call.metric_name)), Scale)

\* The severity mapping of the specification on a deviation d
SeverityMapping(d, mult) ==
    IF FGt(d, FMul(2 * Scale, mult)) THEN "critical"
    ELSE IF FGt(d, FMul((3 * Scale) \div 2, mult)) THEN "high"
    ELSE IF FGt(d, FMul(Scale, mult)) THEN "medium"
    ELSE "low"

\* C20 as stated: when is_anomalous is true the severity is the mapping of
\* the deviation returned.
C20_SeverityOfReturnedDeviation ==
    (IsVerdict /\ bl_call.result.anomalous) =>
        bl_call.result.severity =
            SeverityMapping(bl_call.result.deviation, bl_call.severity_multiplier)

\* C20 amended: the severity is the mapping of the deviation score before
\* it is capped at 1.0 for the return, when is_anomalous is true, and "low"
\* when it is false; the deviation returned is the capped score.
C20_SeverityOfUncappedScore ==
    IsVerdict =>
        /\ bl_call.result.severity =
              IF bl_call.result.anomalous
              THEN SeverityMapping(DeviationScore(CallData, bl_call.value, CallThreshold),
                                   bl_call.severity_multiplier)
              ELSE "low"
        /\ bl_call.result.deviation =
              PyMin(DeviationScore(CallData, bl_call.value, CallThreshold), Scale)

\* A call returned the deviation 1.0 with the severity critical: the score
\* was above 2.0
C20_Witness ==
    /\ IsVerdict /\ bl_call.result.anomalous
    /\ bl_call.metric_name \in TrackedMetrics[bl_call.anomaly_type]
    /\ bl_call.severity_multiplier = Scale
    /\ bl_call.result.deviation = Scale
    /\ bl_call.result.severity = "critical"
    /\ FGt(DeviationScore(CallData, bl_call.value, CallThreshold), 2 * Scale)

\* Two severities for one returned deviation: here 1.0 under the multiplier
\* 4.0 with the severity medium (the score is between 4.0 and 6.0)
C20_SameDeviationOtherSeverity ==
    /\ IsVerdict /\ bl_call.result.anomalous
    /\ bl_call.severity_multiplier = 4 * Scale
    /\ bl_call.result.deviation = Scale
    /\ bl_call.result.severity # "low"

(***************************************************************************)
(*                        TEMPORAL PATTERN ANALYZER                        *)
(***************************************************************************)
\* self.window_duration as constructed by default: 10.0 seconds
WindowDuration == 10 * Scale

\* The most events a feed records
MaxEvents == 20

\* max() of a non-empty list of finite numbers
SeqMax(q) == CHOOSE m \in {q[i] : i \in 1..Len(q)} : \A i \in 1..Len(q) : q[i] <= m

SeqMin(q) == CHOOSE m \in {q[i] : i \in 1..Len(q)} : \A i \in 1..Len(q) : m <= q[i]

\* sorted() of a list of finite numbers
Sorted(q) == SortSeq(q, LAMBDA a, b : a < b)

Reversed(q) == [i \in 1..Len(q) |-> q[Len(q) + 1 - i]]

\* The rate of one sliding window: the events in [window_start, window_end)
WindowRate(timestamps, i) ==
    LET window_start == timestamps[i]
        window_end == FAdd(window_start, WindowDuration)
        events_in_window ==
            Cardinality({j \in 1..Len(timestamps) :
                            window_start <= timestamps[j] /\ timestamps[j] < window_end})
    IN  FDiv(FInt(events_in_window), WindowDuration)

BurstSeverity(max_window_rate, avg_window_rate) ==
    LET burst_ratio == IF FGt(avg_window_rate, 0)
                       THEN FDiv(max_window_rate, avg_window_rate) ELSE Scale
    IN  IF FGt(burst_ratio, 5 * Scale) THEN "critical"
        ELSE IF FGt(burst_ratio, 3 * Scale) THEN "high"
        ELSE IF FGt(burst_ratio, 2 * Scale) THEN "medium"
        ELSE "low"

\* The dict of n events a positive duration apart, given the rates of their
\* windows
BurstAnalysis(n, duration, max_window_rate, avg_window_rate, std_window_rate) ==
    LET burst_detected ==
            IF FGt(std_window_rate, 0)
            THEN FGt(max_window_rate,
                     FAdd(avg_window_rate, FMul(2 * Scale, std_window_rate)))
            ELSE FALSE
    IN  [overall_rate |-> FDiv(FInt(n), duration),
         max_window_rate |-> max_window_rate,
         avg_window_rate |-> avg_window_rate,
         burst_detected |-> burst_detected,
         burst_severity |-> IF burst_detected
                            THEN BurstSeverity(max_window_rate, avg_window_rate)
                            ELSE "none",
         total_events |-> n,
         duration |-> duration]

\* max, np.mean and np.std of window_rates
WindowAnalysis(n, duration, window_rates) ==
    BurstAnalysis(n, duration, SeqMax(window_rates), NpMean(window_rates),
                  NpStd(window_rates))

\* analyze_event_rate from `duration = ...` on: timestamps are sorted
SortedEventRate(timestamps, n, duration) ==
    IF duration = 0
    THEN [rate |-> FInt(n), burst_detected |-> TRUE, burst_severity |-> "high"]
    ELSE WindowAnalysis(n, duration, [i \in 1..(n - 1) |-> WindowRate(timestamps, i)])

\* timestamps[-1] - timestamps[0]
Duration(timestamps) == FSub(timestamps[Len(timestamps)], timestamps[1])

\* analyze_event_rate(event_type, timestamps): the dict it returns, with the
\* keys the branch taken puts in it
analyze_event_rate(unsorted) ==
    IF Len(unsorted) < 2 THEN [rate |-> 0, burst_detected |-> FALSE]
    ELSE SortedEventRate(Sorted(unsorted), Len(unsorted), Duration(Sorted(unsorted)))

\* ---- the events fed to the analyzer ----
\* Gaps between consecutive events: none, half a second, a whole window
EventGaps == {0, Scale \div 2, WindowDuration}

\* A feed: events first_gap apart, then events then_gap apart
EventFeeds == {[first_gap |-> a, then_gap |-> b] : a, b \in EventGaps}

TpInitWith(F) ==
    /\ event_history = <<>>
    /\ tp_call = NoCall
    /\ tp_feed \in {[f |-> f, phase |-> 1] : f \in F}

TpInit == TpInitWith(EventFeeds)

TpIdle == TpInitWith({[first_gap |-> 0, then_gap |-> 0]})

EventTimes == [i \in 1..Len(event_history) |-> event_history[i].timestamp]

\* add_event(event_type, timestamp): the next event of the feed
AddEvent ==
    /\ Len(event_history) < MaxEvents
    /\ \E ph \in {tp_feed.phase, 2} :
         LET gap == IF ph = 1 THEN tp_feed.f.first_gap ELSE tp_feed.f.then_gap
             timestamp == IF event_history = <<>> THEN 0
                          ELSE event_history[Len(event_history)].timestamp + gap
         IN  /\ event_history' = Append(event_history,
                                        [timestamp |-> timestamp, metadata |-> <<>>])
             /\ tp_feed' = [tp_feed EXCEPT !.phase = ph]
    /\ tp_call' = NoCall

\* analyze_event_rate on the recorded timestamps, in the order recorded or
\* in the opposite order
AnalyzeEventRate ==
    /\ tp_call = NoCall
    /\ \E order \in {"recorded", "reversed"} :
         LET timestamps == IF order = "recorded" THEN EventTimes ELSE Reversed(EventTimes)
         IN  tp_call' = [op |-> "analyze_event_rate", timestamps |-> timestamps,
                         result |-> analyze_event_rate(timestamps)]
    /\ UNCHANGED <<event_history, tp_feed>>

TpNext == AddEvent \/ AnalyzeEventRate

(***************************************************************************)
(* Properties of the temporal analyzer.                                    *)
(***************************************************************************)
\* C10 as stated: analyze_event_rate reports a burst for every input of 20
\* events whose timestamps span less than the window duration, whether the
\* timestamps are distinct or not.
C10_TwentyEventsInWindowIsBurst ==
    (/\ tp_call.op = "analyze_event_rate"
     /\ Len(tp_call.timestamps) = 20
     /\ SeqMax(tp_call.timestamps) - SeqMin(tp_call.timestamps) < WindowDuration) =>
        tp_call.result.burst_detected

\* What the code does for 20 events at one instant: the zero-duration branch
\* reports a burst of high severity
C10_SimultaneousEventsAreBurst ==
    (/\ tp_call.op = "analyze_event_rate"
     /\ Len(tp_call.timestamps) >= 2
     /\ \A i \in 1..Len(tp_call.timestamps) : tp_call.timestamps[i] = tp_call.timestamps[1]) =>
        /\ tp_call.result.burst_detected
        /\ tp_call.result.burst_severity = "high"

(***************************************************************************)
(*                            ENSEMBLE SCORER                              *)
(***************************************************************************)
\* ---- bounds of the scorer's inputs ----
\* The largest retrain_threshold a detector is constructed with
MaxRetrainThreshold == 2

\* How many files are analysed
MaxRuns == 3

\* analyze_pcap hands over at least 3 feature windows
MinWindows == 3

\* The most feature windows of a file
MaxWindows == 4

\* Packets per feature window
PacketsPerWindow == 4

\* retrain_threshold of MLAnomalyDetector() constructed without arguments
DefaultRetrainThreshold == 10

\* The four outlier detectors of the ensemble, in voting order
Algorithms == <<"isolation_forest", "one_class_svm", "dbscan", "lof">>

\* ---- files of models_dir and feature_history_dir ----
NoMetadataFile == [exists |-> FALSE, files_processed |-> 0, last_retrain |-> FALSE]

NoFeatureFile == [exists |-> FALSE, rows |-> <<>>]

\* create_fresh_model for each model: nothing is fitted
FreshModels == [scaler |-> FALSE, isolation_forest |-> FALSE, one_class_svm |-> FALSE]

FittedModels == [scaler |-> TRUE, isolation_forest |-> TRUE, one_class_svm |-> TRUE]

NoModelFiles == [exists |-> FALSE, fitted |-> FreshModels]

EmptyDisk == [metadata |-> NoMetadataFile, features |-> NoFeatureFile, pkl |-> NoModelFiles]

\* load_or_create_models: the pickled models, or fresh ones
load_or_create_models(disk) == IF disk.pkl.exists THEN disk.pkl.fitted ELSE FreshModels

\* load_metadata: metadata.json, or new metadata (last_retrain: is it set)
load_metadata(disk) ==
    IF disk.metadata.exists
    THEN [files_processed |-> disk.metadata.files_processed,
          last_retrain |-> disk.metadata.last_retrain]
    ELSE [files_processed |-> 0, last_retrain |-> FALSE]

check_if_models_trained(disk) == disk.metadata.exists /\ disk.metadata.last_retrain

\* MLAnomalyDetector.__init__ on the directories as they are
NewDetector(disk, retrain_threshold) ==
    [retrain_threshold |-> retrain_threshold,
     models |-> load_or_create_models(disk),
     metadata |-> load_metadata(disk),
     models_trained |-> check_if_models_trained(disk)]

MetadataFile(metadata) ==
    [exists |-> TRUE, files_processed |-> metadata.files_processed,
     last_retrain |-> metadata.last_retrain]

\* save_metadata: metadata.json takes the in-memory metadata
save_metadata(st) == [st EXCEPT !.disk.metadata = MetadataFile(st.det.metadata)]

\* save_features_for_training: vstack onto the stored matrix, or a new file
save_features_for_training(st, features_array) ==
    [st EXCEPT !.disk.features =
        IF @.exists THEN [exists |-> TRUE, rows |-> @.rows \o features_array]
        ELSE [exists |-> TRUE, rows |-> features_array]]

\* save_models: the .pkl files, then the metadata
save_models(st, update_retrain_timestamp) ==
    LET md == IF update_retrain_timestamp
              THEN [st.det.metadata EXCEPT !.last_retrain = TRUE]
              ELSE st.det.metadata
    IN  [st EXCEPT !.det.metadata = md,
                   !.disk.pkl = [exists |-> TRUE, fitted |-> st.det.models],
                   !.disk.metadata = MetadataFile(md)]

\* retrain_models: fit on the accumulated features, reset the counter,
\* remove the feature file, save
retrain_models(st) ==
    IF ~st.disk.features.exists THEN st
    ELSE LET fitted == [st EXCEPT !.det.models = FittedModels]
             reset == [fitted EXCEPT !.det.metadata.files_processed = 0,
                                     !.disk.features = NoFeatureFile]
         IN  save_models(reset, TRUE)

RetrainsLate(files_processed, retrain_threshold) == files_processed > retrain_threshold

\* The threshold check of run_ml_ensemble_analysis
ShouldRetrain(files_processed, retrain_threshold) == files_processed >= retrain_threshold

\* votes: one for each algorithm whose prediction for window i is -1
CountVotes(predictions, i) ==
    LET iso == IF predictions["isolation_forest"][i] = 0 - 1 THEN 1 ELSE 0
        svm == IF predictions["one_class_svm"][i] = 0 - 1 THEN 1 ELSE 0
        dbscan == IF predictions["dbscan"][i] = 0 - 1 THEN 1 ELSE 0
        lof == IF predictions["lof"][i] = 0 - 1 THEN 1 ELSE 0
    IN  iso + svm + dbscan + lof

ConfidenceOfFive(votes) == FDiv(FInt(votes), 5 * Scale)

\* 'confidence': votes / 4.0
EnsembleConfidence(votes) == FDiv(FInt(votes), 4 * Scale)

\* The anomaly record of window i (0-based window_index)
EnsembleAnomaly(predictions, packet_metadata, i) ==
    [window_index |-> i - 1,
     packet_number |-> packet_metadata[i].start_packet,
     confidence |-> EnsembleConfidence(CountVotes(predictions, i)),
     algorithms_voting |->
        {Algorithms[a] : a \in {b \in 1..4 : predictions[Algorithms[b]][i] = 0 - 1}}]

\* The voting loop: a record for every window with at least one vote
RECURSIVE EnsembleVoting(_, _, _, _)
EnsembleVoting(predictions, packet_metadata, i, n) ==
    IF i > n THEN <<>>
    ELSE (IF CountVotes(predictions, i) >= 1
          THEN <<EnsembleAnomaly(predictions, packet_metadata, i)>>
          ELSE <<>>) \o EnsembleVoting(predictions, packet_metadata, i + 1, n)

\* run_ml_ensemble_analysis(features, packet_metadata) of detector det on the
\* directories disk; predictions are what the four algorithms answer.
\* Returns the detector, the directories and the anomalies, or what it raised.
run_ml_ensemble_analysis(det, disk, features, packet_metadata, predictions) ==
    LET st0 == [det |-> det, disk |-> disk]
        saved == save_features_for_training(st0, features)
        counted == [saved EXCEPT !.det.metadata.files_processed = @ + 1]
        checked == IF ShouldRetrain(counted.det.metadata.files_processed,
                                    counted.det.retrain_threshold)
                   THEN retrain_models(counted) ELSE counted
    IN  IF checked.det.models_trained
        THEN \* inference with the existing scaler and models
             IF checked.det.models = FittedModels
             THEN LET final == save_metadata(checked)
                  IN  [det |-> final.det, disk |-> final.disk, raised |-> "",
                       mode |-> "inference",
                       anomalies |-> EnsembleVoting(predictions, packet_metadata, 1,
                                                    Len(features))]
             ELSE [det |-> checked.det, disk |-> checked.disk,
                   raised |-> "NotFittedError", mode |-> "inference",
                   anomalies |-> <<>>]
        ELSE \* first-time training on the current features
             LET trained == [checked EXCEPT !.det.models = FittedModels,
                                            !.det.models_trained = TRUE]
                 final == save_metadata(save_models(trained, TRUE))
             IN  [det |-> final.det, disk |-> final.disk, raised |-> "",
                  mode |-> "training",
                  anomalies |-> EnsembleVoting(predictions, packet_metadata, 1,
                                               Len(features))]

\* ---- the files handed to the scorer ----
\* The feature matrix of the file-th file, of n windows
FeatureMatrix(file, n) == [i \in 1..n |-> [file |-> file, window |-> i]]

PacketMetadata(n) ==
    [i \in 1..n |-> [window_index |-> i - 1, packet_count |-> PacketsPerWindow,
                     start_packet |-> (i - 1) * PacketsPerWindow,
                     end_packet |-> i * PacketsPerWindow - 1]]

\* What one algorithm answers for n windows: no outlier, the second window
\* only, or every window (dbscan labels the others 0, the rest +1)
Labels(algorithm, n) ==
    LET inlier == IF algorithm = "dbscan" THEN 0 ELSE 1
    IN  {[i \in 1..n |-> IF i \in flagged THEN 0 - 1 ELSE inlier] :
            flagged \in {{}, {2}, 1..n}}

PredictionsFor(n) ==
    {[isolation_forest |-> iso, one_class_svm |-> svm, dbscan |-> db, lof |-> lof] :
        iso \in Labels("isolation_forest", n), svm \in Labels("one_class_svm", n),
        db \in Labels("dbscan", n), lof \in Labels("lof", n)}

MlInitWith(thresholds) ==
    /\ ml_disk = EmptyDisk
    /\ ml_detector \in {NewDetector(EmptyDisk, t) : t \in thresholds}
    /\ ml_call = NoCall
    /\ ml_files = <<>>

MlInit == MlInitWith(1..MaxRetrainThreshold)

MlIdle == MlInitWith({DefaultRetrainThreshold})

\* run_ml_ensemble_analysis on the features of one more file
RunMlEnsembleAnalysis ==
    /\ Len(ml_files) < MaxRuns
    /\ \E n \in {MinWindows, MaxWindows} :
         \E predictions \in PredictionsFor(n) :
           \E r \in {run_ml_ensemble_analysis(ml_detector, ml_disk,
                                               FeatureMatrix(Len(ml_files) + 1, n),
                                               PacketMetadata(n), predictions)} :
               /\ ml_detector' = r.det
               /\ ml_disk' = r.disk
               /\ ml_call' = [op |-> "run_ml_ensemble_analysis",
                              features |-> FeatureMatrix(Len(ml_files) + 1, n),
                              predictions |-> predictions, raised |-> r.raised,
                              mode |-> r.mode, anomalies |-> r.anomalies]
               /\ ml_files' = Append(ml_files, FeatureMatrix(Len(ml_files) + 1, n))

\* A new process: MLAnomalyDetector(retrain_threshold=...) on the same
\* directories
RestartDetector ==
    /\ ml_call # NoCall
    /\ ml_detector' = NewDetector(ml_disk, ml_detector.retrain_threshold)
    /\ ml_call' = NoCall
    /\ UNCHANGED <<ml_disk, ml_files>>

MlNext == RunMlEnsembleAnalysis \/ RestartDetector

(***************************************************************************)
(* Properties of the ensemble scorer.                                      *)
(***************************************************************************)
\* The matrices of the last k files analysed, stacked in order
LastFilesStacked(k) ==
    Flatten([j \in 1..k |-> ml_files[Len(ml_files) - k + j]])

Flagging(i) == {a \in {Algorithms[b] : b \in 1..4} : ml_call.predictions[a][i] = 0 - 1}

\* The windows of the last call at least one algorithm marked, in order
FlaggedWindows ==
    SelectSeq([i \in 1..Len(ml_call.features) |-> i], LAMBDA i : Flagging(i) # {})

\* C8: for every window the number of votes is the number of the four
\* algorithms that marked it, between 0 and 4; a record is emitted for the
\* window iff it has at least one vote, and the record's confidence is
\* votes / 4.
C8_VotesAndConfidence ==
    (ml_call.op = "run_ml_ensemble_analysis" /\ ml_call.raised = "") =>
        /\ Len(ml_call.anomalies) = Len(FlaggedWindows)
        /\ \A r \in 1..Len(ml_call.anomalies) :
              LET i == FlaggedWindows[r]
                  votes == Cardinality(Flagging(i))
                  record == ml_call.anomalies[r]
              IN  /\ votes \in 1..4
                  /\ record.window_index = i - 1
                  /\ record.algorithms_voting = Flagging(i)
                  /\ 4 * record.confidence = votes * Scale

C8_Witness ==
    /\ ml_call.op = "run_ml_ensemble_analysis"
    /\ Len(ml_call.features) = MaxWindows
    /\ Len(ml_call.anomalies) = MaxWindows
    /\ ml_call.anomalies[1].confidence = Scale \div 4
    /\ ml_call.anomalies[2].confidence = Scale
    /\ Flagging(2) = {Algorithms[b] : b \in 1..4}

(***************************************************************************)
(*                 SCORERS SHARING ONE PAIR OF DIRECTORIES                 *)
(***************************************************************************)
\* Two MLAnomalyDetector instances, each analysing one file, on the same
\* models_dir and feature_history_dir.  A step is one access to a file of the
\* directories (the .pkl files of save_models are written in one step, up to
\* the one whose dump fails); what a detector does in memory goes with the
\* access that follows it.
Procs == {1, 2}

\* The file names of model_files, in the order of the dict
ModelNames == <<"isolation_forest", "one_class_svm", "dbscan", "scaler">>

ModelSet == {ModelNames[i] : i \in 1..Len(ModelNames)}

\* A model: whether it has been fitted, and on which rows
Unfitted == [fitted |-> FALSE, on |-> <<>>]

FitOn(rows) == [fitted |-> TRUE, on |-> rows]

\* create_fresh_model for every model of the dict
AllFresh == [m \in ModelSet |-> Unfitted]

\* A .pkl file: whether it exists, whether joblib.load can read it, the model
NoPkl == [exists |-> FALSE, readable |-> TRUE, model |-> Unfitted]

PklOf(model) == [exists |-> TRUE, readable |-> TRUE, model |-> model]

\* metadata.json: last_retrain is 0 for None, else the time it was set
NoMetadataJson == [exists |-> FALSE, readable |-> TRUE, files_processed |-> 0, last_retrain |-> 0]

FreshMetadata == [files_processed |-> 0, last_retrain |-> 0]

MetadataJson(metadata) ==
    [exists |-> TRUE, readable |-> TRUE, files_processed |-> metadata.files_processed,
     last_retrain |-> metadata.last_retrain]

EmptyDirs ==
    [pkl |-> [m \in ModelSet |-> NoPkl], metadata |-> NoMetadataJson,
     features |-> NoFeatureFile]

\* The feature matrix of the file a process analyses: MinWindows windows
BatchOf(file) == FeatureMatrix(file, MinWindows)

\* The directories after one detector has analysed file 0 on empty ones, by
\* first-time training at time 1
TrainedDirs ==
    [pkl |-> [m \in ModelSet |-> PklOf(FitOn(BatchOf(0)))],
     metadata |-> MetadataJson([files_processed |-> 1, last_retrain |-> 1]),
     features |-> [exists |-> TRUE, rows |-> BatchOf(0)]]

\* The same with one file unreadable
Unreadable(dirs, name) ==
    IF name = "metadata" THEN [dirs EXCEPT !.metadata.readable = FALSE]
    ELSE [dirs EXCEPT !.pkl[name].readable = FALSE]

\* ---- the steps of __init__ ----
\* load_or_create_models: a file that is missing or fails to load gives a
\* fresh model, each file on its own
LoadOrCreateModels(dirs) ==
    [m \in ModelSet |->
        IF dirs.pkl[m].exists /\ dirs.pkl[m].readable THEN dirs.pkl[m].model
        ELSE Unfitted]

\* load_metadata: the file's content, or new metadata
LoadMetadata(dirs) ==
    IF dirs.metadata.exists /\ dirs.metadata.readable
    THEN [files_processed |-> dirs.metadata.files_processed,
          last_retrain |-> dirs.metadata.last_retrain]
    ELSE FreshMetadata

\* check_if_models_trained: metadata.get('last_retrain') is not None
CheckIfModelsTrained(dirs) ==
    dirs.metadata.exists /\ dirs.metadata.readable /\ dirs.metadata.last_retrain # 0

\* A process before __init__
NewProc(file, retrain_threshold, fault) ==
    [pc |-> "new", file |-> file, retrain_threshold |-> retrain_threshold,
     fault |-> fault, models |-> AllFresh, metadata |-> FreshMetadata,
     models_trained |-> FALSE, existing |-> NoFeatureFile, lof |-> Unfitted,
     mode |-> "", raised |-> "", retrained |-> FALSE, fits |-> {},
     overlapped |-> FALSE, before |-> EmptyDirs, after |-> ""]

\* ---- the processes ----
RetrainThresholds == {2, 3}

\* What goes wrong in a process: nothing, joblib.dump of the second .pkl file,
\* or the first fit of retrain_models
Faults == {"none", "dump", "fit"}

StartDirs ==
    {EmptyDirs, TrainedDirs}
    \cup {Unreadable(TrainedDirs, name) : name \in {"metadata", "scaler", "dbscan"}}

ScInitWith(D, T, F) ==
    /\ sc_dirs \in D
    /\ sc_proc \in {[p \in Procs |-> NewProc(p, t, IF p = 1 THEN f ELSE "none")] :
                       t \in T, f \in F}
    /\ sc_clock = 1
    /\ sc_start = sc_dirs

ScInit == ScInitWith(StartDirs, RetrainThresholds, Faults)

ScIdle == ScInitWith({EmptyDirs}, {DefaultRetrainThreshold}, {"none"})

\* The process p as it is, and after a step
Self(p) == sc_proc[p]

Becomes(p, proc) == sc_proc' = [sc_proc EXCEPT ![p] = proc]

\* __init__: self.models = self.load_or_create_models()
ScLoadOrCreateModels(p) ==
    /\ Self(p).pc = "new"
    /\ Becomes(p, [Self(p) EXCEPT !.pc = "load_metadata",
                                  !.models = LoadOrCreateModels(sc_dirs)])
    /\ UNCHANGED <<sc_dirs, sc_clock, sc_start>>

\* __init__: self.metadata = self.load_metadata()
ScLoadMetadata(p) ==
    /\ Self(p).pc = "load_metadata"
    /\ Becomes(p, [Self(p) EXCEPT !.pc = "check_trained",
                                  !.metadata = LoadMetadata(sc_dirs)])
    /\ UNCHANGED <<sc_dirs, sc_clock, sc_start>>

\* __init__: self.models_trained = self.check_if_models_trained(); the
\* instance exists from here on, overlapped: the other has not finished yet
ScCheckIfModelsTrained(p) ==
    /\ Self(p).pc = "check_trained"
    /\ Becomes(p, [Self(p) EXCEPT
            !.pc = "load_features",
            !.models_trained = CheckIfModelsTrained(sc_dirs),
            !.overlapped = \A q \in Procs \ {p} : sc_proc[q].pc # "done"])
    /\ UNCHANGED <<sc_dirs, sc_clock, sc_start>>

\* save_features_for_training: os.path.exists and np.load
ScLoadFeatures(p) ==
    /\ Self(p).pc = "load_features"
    /\ Becomes(p, [Self(p) EXCEPT !.pc = "save_features", !.existing = sc_dirs.features])
    /\ UNCHANGED <<sc_dirs, sc_clock, sc_start>>

\* save_features_for_training: np.save of what was loaded with the batch
\* stacked onto it; then files_processed += 1 and the threshold check
ScSaveFeatures(p) ==
    /\ Self(p).pc = "save_features"
    /\ sc_dirs' = [sc_dirs EXCEPT !.features =
                      [exists |-> TRUE,
                       rows |-> Self(p).existing.rows \o BatchOf(Self(p).file)]]
    /\ Becomes(p, [Self(p) EXCEPT
            !.metadata.files_processed = @ + 1,
            !.pc = IF ShouldRetrain(Self(p).metadata.files_processed + 1,
                                    Self(p).retrain_threshold)
                   THEN "retrain_load" ELSE "predict"])
    /\ UNCHANGED <<sc_clock, sc_start>>

\* The scaler and the two models retrain_models fits, on all_features
Retrained(models, all_features) ==
    [m \in ModelSet |-> IF m = "dbscan" THEN models[m] ELSE FitOn(all_features)]

FitsOf(names, rows) == {<<m, rows>> : m \in names}

\* retrain_models up to the reset of the counter: without a feature file it
\* returns; a fit that fails is caught and ends it
ScRetrainLoad(p) ==
    /\ Self(p).pc = "retrain_load"
    /\ IF ~sc_dirs.features.exists \/ Self(p).fault = "fit"
       THEN Becomes(p, [Self(p) EXCEPT !.pc = "predict"])
       ELSE Becomes(p, [Self(p) EXCEPT
               !.pc = "retrain_remove",
               !.models = Retrained(@, sc_dirs.features.rows),
               !.fits = @ \cup FitsOf(ModelSet \ {"dbscan"}, sc_dirs.features.rows),
               !.metadata.files_processed = 0,
               !.retrained = TRUE,
               !.before = sc_dirs])
    /\ UNCHANGED <<sc_dirs, sc_clock, sc_start>>

\* retrain_models: os.remove(feature_file), whose FileNotFoundError is caught
ScRetrainRemove(p) ==
    /\ Self(p).pc = "retrain_remove"
    /\ IF sc_dirs.features.exists
       THEN /\ sc_dirs' = [sc_dirs EXCEPT !.features = NoFeatureFile]
            /\ Becomes(p, [Self(p) EXCEPT !.pc = "save_pkl", !.after = "predict"])
       ELSE /\ Becomes(p, [Self(p) EXCEPT !.pc = "predict"])
            /\ UNCHANGED sc_dirs
    /\ UNCHANGED <<sc_clock, sc_start>>

\* save_models: joblib.dump of every model in the order of the dict, then the
\* time of the retrain into the metadata in memory; a dump that fails is
\* caught and ends save_models
ScSavePkl(p) ==
    /\ Self(p).pc = "save_pkl"
    /\ IF Self(p).fault = "dump"
       THEN /\ sc_dirs' = [sc_dirs EXCEPT !.pkl[ModelNames[1]] =
                              PklOf(Self(p).models[ModelNames[1]])]
            /\ Becomes(p, [Self(p) EXCEPT !.pc = Self(p).after])
            /\ UNCHANGED <<sc_clock, sc_start>>
       ELSE /\ sc_dirs' = [sc_dirs EXCEPT !.pkl =
                              [m \in ModelSet |-> PklOf(Self(p).models[m])]]
            /\ sc_clock' = sc_clock + 1
            /\ Becomes(p, [Self(p) EXCEPT !.pc = "save_models_metadata",
                                          !.metadata.last_retrain = sc_clock + 1])
    /\ UNCHANGED sc_start

\* save_models: json.dump of the metadata in memory
ScSaveModelsMetadata(p) ==
    /\ Self(p).pc = "save_models_metadata"
    /\ sc_dirs' = [sc_dirs EXCEPT !.metadata = MetadataJson(Self(p).metadata)]
    /\ Becomes(p, [Self(p) EXCEPT !.pc = Self(p).after])
    /\ UNCHANGED <<sc_clock, sc_start>>

\* The models predict needs fitted in inference mode
InferenceModels == {"scaler", "isolation_forest", "one_class_svm"}

\* Inference in which the isolation forest is fit_predict-ed as well
RefitsIsolationForest == {"isolation_forest", "dbscan", "lof"}

\* The estimators fit_predict is called on in inference mode: DBSCAN, which
\* has no predict, and the LOF made for the call
InferenceFits == {"dbscan", "lof"}

\* run_ml_ensemble_analysis from `if self.models_trained` to the LOF: in
\* inference mode the scaler transforms, two models predict (NotFittedError
\* of an unfitted one leaves the method) and DBSCAN is fitted on the batch;
\* in training mode all four are fitted on it and save_models follows
ScPredict(p) ==
    /\ Self(p).pc = "predict"
    /\ \E batch \in {BatchOf(Self(p).file)} :
         IF Self(p).models_trained
         THEN IF \A m \in InferenceModels : Self(p).models[m].fitted
              THEN Becomes(p, [Self(p) EXCEPT
                      !.pc = "save_metadata", !.mode = "inference",
                      !.models = [m \in ModelSet |->
                                     IF m \in InferenceFits THEN FitOn(batch) ELSE @[m]],
                      !.lof = FitOn(batch),
                      !.fits = @ \cup FitsOf(InferenceFits, batch)])
              ELSE Becomes(p, [Self(p) EXCEPT
                      !.pc = "done", !.mode = "inference",
                      !.raised = "NotFittedError"])
         ELSE Becomes(p, [Self(p) EXCEPT
                 !.pc = "save_pkl", !.after = "save_metadata", !.mode = "training",
                 !.models = [m \in ModelSet |-> FitOn(batch)],
                 !.models_trained = TRUE,
                 !.lof = FitOn(batch),
                 !.fits = @ \cup FitsOf(ModelSet \cup {"lof"}, batch)])
    /\ UNCHANGED <<sc_dirs, sc_clock, sc_start>>

\* run_ml_ensemble_analysis: self.save_metadata(), and the method returns
ScSaveMetadata(p) ==
    /\ Self(p).pc = "save_metadata"
    /\ sc_dirs' = [sc_dirs EXCEPT !.metadata = MetadataJson(Self(p).metadata)]
    /\ Becomes(p, [Self(p) EXCEPT !.pc = "done"])
    /\ UNCHANGED <<sc_clock, sc_start>>

ScNext ==
    \E p \in Procs :
        \/ ScLoadOrCreateModels(p)
        \/ ScLoadMetadata(p)
        \/ ScCheckIfModelsTrained(p)
        \/ ScLoadFeatures(p)
        \/ ScSaveFeatures(p)
        \/ ScRetrainLoad(p)
        \/ ScRetrainRemove(p)
        \/ ScSavePkl(p)
        \/ ScSaveModelsMetadata(p)
        \/ ScPredict(p)
        \/ ScSaveMetadata(p)

(***************************************************************************)
(* Properties of the scorers sharing directories.                          *)
(***************************************************************************)
\* Both processes have finished, neither with an exception
BothDone == \A p \in Procs : sc_proc[p].pc = "done" /\ sc_proc[p].raised = ""

\* C13 as stated: when the two invocations overlap (each instance is created
\* before the other finishes) and both finish without a retrain, the store
\* holds the feature matrices of both files and the persisted files_processed
\* has grown by 2.
C13_NoLostUpdate ==
    (/\ BothDone
     /\ \A p \in Procs : sc_proc[p].overlapped /\ ~sc_proc[p].retrained
     /\ \A p \in Procs : sc_proc[p].fault = "none") =>
        /\ sc_dirs.features.exists
        /\ \A p \in Procs : \A i \in 1..MinWindows :
              \E j \in 1..Len(sc_dirs.features.rows) :
                  sc_dirs.features.rows[j] = BatchOf(p)[i]
        /\ sc_dirs.metadata.files_processed = sc_start.metadata.files_processed + 2

\* A file of the directories exists and cannot be loaded
LoadFails(dirs) ==
    \/ dirs.metadata.exists /\ ~dirs.metadata.readable
    \/ \E m \in ModelSet : dirs.pkl[m].exists /\ ~dirs.pkl[m].readable

\* C15 as stated: when a .pkl file or metadata.json fails to load, the
\* detector is constructed all the same and its state is the fresh one as a
\* whole: every model unfitted, files_processed 0, last_retrain unset (so
\* models_trained is False).  Stated for a detector constructed on
\* directories nothing has written to since the start.
C15_LoadFailureGivesFreshState ==
    [][\A p \in Procs :
          (/\ sc_proc[p].pc = "check_trained" /\ sc_proc'[p].pc = "load_features"
           /\ sc_dirs = sc_start /\ LoadFails(sc_dirs))
          => (/\ sc_proc'[p].models = AllFresh
              /\ sc_proc'[p].metadata = FreshMetadata
              /\ ~sc_proc'[p].models_trained)]_vars

\* The process has gone through the mode branch of run_ml_ensemble_analysis
\* in inference mode, without a retrain before it
InferredWithoutRetrain(p) ==
    /\ sc_proc[p].pc \in {"save_metadata", "done"}
    /\ sc_proc[p].mode = "inference"
    /\ ~sc_proc[p].retrained

\* C17 as stated: in an invocation on fitted persisted models, only the LOF
\* is fit on the current batch; the isolation forest, DBSCAN and the
\* one-class SVM are not.
C17_OnlyLofFitOnBatch ==
    \A p \in Procs :
        (InferredWithoutRetrain(p) /\ sc_proc[p].raised = "") =>
            sc_proc[p].fits = FitsOf({"lof"}, BatchOf(p))

\* C17 amended: in an invocation on fitted persisted models in which no
\* retrain is due, the scaler, the isolation forest and the one-class SVM are
\* used as loaded, none of them fit on the current batch, while DBSCAN and
\* the LOF are both fit on the current batch; when the call fails on an
\* unfitted model nothing has been fit.
C17_LofAndDbscanFitOnBatch ==
    \A p \in Procs :
        InferredWithoutRetrain(p) =>
            IF sc_proc[p].raised = ""
            THEN /\ sc_proc[p].fits = FitsOf({"dbscan", "lof"}, BatchOf(p))
                 /\ \A m \in InferenceModels :
                       /\ sc_proc[p].models[m].fitted
                       /\ sc_proc[p].models[m].on # BatchOf(p)
                 /\ sc_proc[p].models["dbscan"] = FitOn(BatchOf(p))
                 /\ sc_proc[p].lof = FitOn(BatchOf(p))
            ELSE sc_proc[p].fits = {}

\* A call in inference mode has finished without a retrain: DBSCAN is among
\* what was fit on its batch
C17_Witness ==
    \E p \in Procs :
        /\ sc_proc[p].pc = "done" /\ sc_proc[p].mode = "inference"
        /\ sc_proc[p].raised = "" /\ ~sc_proc[p].retrained
        /\ sc_proc[p].models_trained
        /\ <<"dbscan", BatchOf(p)>> \in sc_proc[p].fits
        /\ sc_proc[p].models["scaler"].on = BatchOf(0)

\* The process p is alone on the directories and has gone into a retrain,
\* whose directories at its start are sc_proc[p].before
RetrainsAlone(p) ==
    /\ sc_proc[p].retrained
    /\ \A q \in Procs \ {p} : sc_proc[q].pc = "new"

\* The store has been cleared, or the files_processed of metadata.json reset
ClearedOrReset(p) ==
    \/ ~sc_dirs.features.exists
    \/ /\ sc_dirs.metadata.files_processed = 0
       /\ sc_proc[p].before.metadata.files_processed > 0

\* The .pkl files and last_retrain are those from before the retrain
ArtifactsFromBefore(p) ==
    /\ sc_dirs.pkl = sc_proc[p].before.pkl
    /\ sc_dirs.metadata.last_retrain = sc_proc[p].before.metadata.last_retrain

\* C18 as stated: in no state of a retrain, a failing dump included, is the
\* store cleared or files_processed reset while the .pkl files and
\* last_retrain are still those from before the retrain.
C18_ClearedOnlyWithNewArtifacts ==
    \A p \in Procs : RetrainsAlone(p) => ~(ClearedOrReset(p) /\ ArtifactsFromBefore(p))

\* C28 as stated: after every invocation of run_ml_ensemble_analysis
\* files_processed is strictly below retrain_threshold, also when the
\* retrain of that invocation failed.
C28_CounterBelowThresholdAfterRun ==
    \A p \in Procs :
        sc_proc[p].pc = "done" =>
            sc_proc[p].metadata.files_processed < sc_proc[p].retrain_threshold

\* The part of C28 the code satisfies: the invocations that retrained
C28_CounterZeroAfterRetrain ==
    \A p \in Procs :
        (sc_proc[p].pc = "done" /\ sc_proc[p].retrained) =>
            sc_proc[p].metadata.files_processed = 0

\* C29 as stated: the scorer never predicts with an unfitted model: a
\* process on the inference path (models_trained from the persisted
\* last_retrain) has a fitted normalizer and fitted detectors, also after a
\* load in which only some artifacts could be read.
C29_InferenceOnlyWithFittedModels ==
    \A p \in Procs :
        (sc_proc[p].mode = "inference" \/ (sc_proc[p].pc = "predict" /\ sc_proc[p].models_trained)) =>
            /\ sc_proc[p].raised # "NotFittedError"
            /\ \A m \in {"scaler", "isolation_forest", "one_class_svm"} :
                  sc_proc[p].models[m].fitted

(***************************************************************************)
(*                           PROTOCOL DETECTORS                            *)
(***************************************************************************)
\* ---- packets ----
\* A packet as the detectors see it: whether haslayer(Raw) holds, the words
\* of its payload, its time and the id of its IP header (NoIp: no IP layer).
\* The packets of a DLF file are QXDMPackets, whose haslayer compares the
\* layer with the string 'Raw' and so denies having scapy's Raw layer.
NoIp == 0 - 1

\* The words payloads are made of
Words ==
    {"rach", "reject", "Reject", "timeout", "handover", "harq", "retx", "nack",
     "crc", "error", "fail", "rrc", "Setup", "setup", "ta", "violation", "invalid",
     "tpc", "limit", "data", "idle", "preamble", "abort", "corrupt"}

\* bytes.lower() of a word
LowerOf(w) ==
    CASE w = "Reject" -> "reject"
      [] w = "Setup" -> "setup"
      [] OTHER -> w

\* The patterns of the detectors that occur in a word as a substring
PatternsIn(w) ==
    CASE w = "nack" -> {"nack", "ack"}
      [] w = "data" -> {"ta"}
      [] w = "error" -> {"error", "err"}
      [] w = "idle" -> {}
      [] OTHER -> {w}

\* pattern in payload
In(pattern, payload) == \E i \in 1..Len(payload) : pattern \in PatternsIn(payload[i])

\* payload.lower()
LowerPayload(payload) == [i \in 1..Len(payload) |-> LowerOf(payload[i])]

AnyIn(patterns, payload) == \E p \in patterns : In(p, payload)

\* error_patterns of extract_l1_indicators, in order
ErrorPatterns == <<"error", "fail", "reject", "timeout", "violation", "invalid">>

\* The same, but a payload with an error pattern counts as of the RACH category
ErrorsCountAsRach(payload) ==
    LET payload_lower == LowerPayload(payload)
        error_indicators == SelectSeq(ErrorPatterns, LAMBDA p : In(p, payload_lower))
    IN  [has_rach |-> AnyIn({"rach", "prach", "preamble"}, payload_lower)
                      \/ Len(error_indicators) > 0,
         has_handover |-> AnyIn({"handover", "ho_", "mobility"}, payload_lower),
         has_harq |-> AnyIn({"harq", "retx", "nack", "ack"}, payload_lower),
         has_crc |-> AnyIn({"crc", "checksum", "fcs"}, payload_lower),
         has_rrc |-> AnyIn({"rrc", "connection", "setup", "release"}, payload_lower),
         has_timing_advance |-> AnyIn({"ta", "timingadvance", "timing"}, payload_lower),
         has_power_control |-> AnyIn({"tpc", "powercontrol", "power"}, payload_lower),
         error_indicators |-> error_indicators,
         failure_indicators |-> error_indicators]

\* EnhancedProtocolParser.extract_l1_indicators by pattern matching
extract_l1_indicators(payload) ==
    LET payload_lower == LowerPayload(payload)
        error_indicators == SelectSeq(ErrorPatterns, LAMBDA p : In(p, payload_lower))
    IN  [has_rach |-> AnyIn({"rach", "prach", "preamble"}, payload_lower),
         has_handover |-> AnyIn({"handover", "ho_", "mobility"}, payload_lower),
         has_harq |-> AnyIn({"harq", "retx", "nack", "ack"}, payload_lower),
         has_crc |-> AnyIn({"crc", "checksum", "fcs"}, payload_lower),
         has_rrc |-> AnyIn({"rrc", "connection", "setup", "release"}, payload_lower),
         has_timing_advance |-> AnyIn({"ta", "timingadvance", "timing"}, payload_lower),
         has_power_control |-> AnyIn({"tpc", "powercontrol", "power"}, payload_lower),
         error_indicators |-> error_indicators,
         failure_indicators |-> error_indicators]

\* ---- QXDMMessageDecoder ----
\* The message id sets of the decoder (0xB063 is 45155, and so on)
RACH_MESSAGE_IDS == {45155, 45156, 45253, 45362}

HANDOVER_MESSAGE_IDS == {45254, 45255, 45264, 45265, 45266}

RRC_MESSAGE_IDS == {45248, 45249, 45250, 45280, 45281, 45282, 45207, 45216, 45217}

MAC_MESSAGE_IDS == {45152, 45153, 45154, 45155, 45156, 45157}

HARQ_MESSAGE_IDS == {45369, 45370, 45152, 45153}

POWER_CONTROL_IDS == {45376, 45377, 45378, 45379}

TIMING_ADVANCE_IDS == {45392, 45393}

\* failure_keywords and error_keywords of get_protocol_indicators, in order
FailureKeywords == <<"fail", "error", "reject", "timeout", "abort", "deny">>

ErrorKeywords == <<"error", "err", "invalid", "corrupt">>

\* get_protocol_indicators in which a MAC message id sets has_harq
MacCountsAsHarq(payload, message_id) ==
    [has_rach |-> message_id \in RACH_MESSAGE_IDS
                  \/ AnyIn({"rach", "prach"}, LowerPayload(payload)),
     has_handover |-> message_id \in HANDOVER_MESSAGE_IDS
                      \/ AnyIn({"handover", "ho"}, LowerPayload(payload)),
     has_rrc |-> message_id \in RRC_MESSAGE_IDS \/ In("rrc", LowerPayload(payload)),
     has_harq |-> message_id \in HARQ_MESSAGE_IDS \cup MAC_MESSAGE_IDS
                  \/ AnyIn({"harq", "retx", "nack"}, LowerPayload(payload)),
     has_crc |-> In("crc", LowerPayload(payload)),
     has_power_control |-> message_id \in POWER_CONTROL_IDS
                           \/ AnyIn({"tpc", "power"}, LowerPayload(payload)),
     has_timing_advance |-> message_id \in TIMING_ADVANCE_IDS
                            \/ AnyIn({"ta", "timing"}, LowerPayload(payload)),
     failure_indicators |->
         SelectSeq(FailureKeywords, LAMBDA k : In(k, LowerPayload(payload))),
     error_indicators |->
         SelectSeq(ErrorKeywords, LAMBDA k : In(k, LowerPayload(payload)))]

\* QXDMMessageDecoder.get_protocol_indicators(payload, message_id) for a
\* message id that is not None: a flag is set by the id, or else by a keyword
get_protocol_indicators(payload, message_id) ==
    [has_rach |-> message_id \in RACH_MESSAGE_IDS
                  \/ AnyIn({"rach", "prach"}, LowerPayload(payload)),
     has_handover |-> message_id \in HANDOVER_MESSAGE_IDS
                      \/ AnyIn({"handover", "ho"}, LowerPayload(payload)),
     has_rrc |-> message_id \in RRC_MESSAGE_IDS \/ In("rrc", LowerPayload(payload)),
     has_harq |-> message_id \in HARQ_MESSAGE_IDS
                  \/ AnyIn({"harq", "retx", "nack"}, LowerPayload(payload)),
     has_crc |-> In("crc", LowerPayload(payload)),
     has_power_control |-> message_id \in POWER_CONTROL_IDS
                           \/ AnyIn({"tpc", "power"}, LowerPayload(payload)),
     has_timing_advance |-> message_id \in TIMING_ADVANCE_IDS
                            \/ AnyIn({"ta", "timing"}, LowerPayload(payload)),
     failure_indicators |->
         SelectSeq(FailureKeywords, LAMBDA k : In(k, LowerPayload(payload))),
     error_indicators |->
         SelectSeq(ErrorKeywords, LAMBDA k : In(k, LowerPayload(payload)))]

\* extract_l1_indicators(payload, packet_obj): a packet object with a
\* message_id (a QXDMPacket) goes to the decoder, any other (packet_obj is
\* None here) to the pattern matching
ExtractL1Indicators(payload, packet_obj) ==
    IF packet_obj.some THEN get_protocol_indicators(payload, packet_obj.val)
    ELSE extract_l1_indicators(payload)

\* ---- the packets handed to the parser ----
\* The words of their payloads
IndWords ==
    {"rach", "Reject", "timeout", "handover", "nack", "crc", "error", "fail", "rrc",
     "setup", "data", "violation", "invalid", "tpc", "idle", "preamble", "abort",
     "corrupt"}

\* The longest payload, in words
MaxPayloadWords == 2

IndPayloads == UNION {[1..n -> IndWords] : n \in 0..MaxPayloadWords}

\* The message ids of the QXDM packets: one of each set, one of two sets, one
\* of the MAC set only and one of no set of a category (0xB110)
IndMessageIds == {45155, 45266, 45248, 45152, 45369, 45376, 45392, 45154, 45328}

IndIdle == ind_call = NoCall

\* A packet is about to be handed to the parser
IndInit ==
    \E payload \in IndPayloads, packet_obj \in {None} \cup {Some(id) : id \in IndMessageIds} :
        ind_call = [op |-> "pending", payload |-> payload, packet_obj |-> packet_obj]

\* extract_l1_indicators on the packet
ExtractIndicators ==
    /\ ind_call.op = "pending"
    /\ ind_call' = [op |-> "extract_l1_indicators", payload |-> ind_call.payload,
                    packet_obj |-> ind_call.packet_obj,
                    result |-> ExtractL1Indicators(ind_call.payload, ind_call.packet_obj)]

IndNext == ExtractIndicators

\* ---- properties of the indicators ----
\* The keywords of the list that occur in the lowercased payload, in order
KeywordsIn(keywords, payload) ==
    SelectSeq(keywords, LAMBDA k : \E i \in 1..Len(payload) : k \in PatternsIn(LowerOf(payload[i])))

\* C23 as stated: for every packet, with a message id or without, the
\* failure evidence is the failure keywords (fail, error, reject, timeout,
\* abort, deny) occurring in the lowercased payload, in that order, and the
\* error evidence the error keywords (error, err, invalid, corrupt).
C23_EvidenceListsByKeywordClass ==
    ind_call.op = "extract_l1_indicators" =>
        /\ ind_call.result.failure_indicators =
              KeywordsIn(<<"fail", "error", "reject", "timeout", "abort", "deny">>,
                         ind_call.payload)
        /\ ind_call.result.error_indicators =
              KeywordsIn(<<"error", "err", "invalid", "corrupt">>, ind_call.payload)

\* The part of C23 the code satisfies: the packets with a message id
C23_EvidenceListsOfQxdmPackets ==
    (ind_call.op = "extract_l1_indicators" /\ ind_call.packet_obj.some) =>
        /\ ind_call.result.failure_indicators =
              KeywordsIn(<<"fail", "error", "reject", "timeout", "abort", "deny">>,
                         ind_call.payload)
        /\ ind_call.result.error_indicators =
              KeywordsIn(<<"error", "err", "invalid", "corrupt">>, ind_call.payload)

\* The id set and the keywords of each category, as get_protocol_indicators
\* has them
CategoryIds ==
    [has_rach |-> RACH_MESSAGE_IDS, has_handover |-> HANDOVER_MESSAGE_IDS,
     has_rrc |-> RRC_MESSAGE_IDS, has_harq |-> HARQ_MESSAGE_IDS, has_crc |-> {},
     has_power_control |-> POWER_CONTROL_IDS, has_timing_advance |-> TIMING_ADVANCE_IDS]

CategoryKeywords ==
    [has_rach |-> <<"rach", "prach">>, has_handover |-> <<"handover", "ho">>,
     has_rrc |-> <<"rrc">>, has_harq |-> <<"harq", "retx", "nack">>,
     has_crc |-> <<"crc">>, has_power_control |-> <<"tpc", "power">>,
     has_timing_advance |-> <<"ta", "timing">>]

extract_timing_features(pkts) ==
    IF Len(pkts) < 2 THEN [present |-> FALSE, jitter |-> 0, max_inter_arrival |-> 0]
    ELSE LET inter_arrival_times ==
                 [i \in 1..(Len(pkts) - 1) |-> FSub(pkts[i + 1].time, pkts[i].time)]
         IN  [present |-> TRUE,
              jitter |-> NpStd(inter_arrival_times),
              max_inter_arrival |-> SeqMax(inter_arrival_times)]

\* EnhancedProtocolParser.detect_sequence_anomalies: the types of the
\* anomalies found, in order
detect_sequence_anomalies(pkts) ==
    IF Len(pkts) < 2 THEN <<>>
    ELSE LET seq_numbers == SelectSeq(pkts, LAMBDA p : p.ip_id # NoIp)
         IN  IF Len(seq_numbers) < 2 THEN <<>>
             ELSE LET kind(i) ==
                          LET gap == seq_numbers[i].ip_id - seq_numbers[i - 1].ip_id
                          IN  IF gap > 10 THEN "sequence_gap"
                              ELSE IF gap = 0 THEN "sequence_duplicate"
                              ELSE IF gap < 0 THEN "sequence_out_of_order"
                              ELSE "none"
                  IN  SelectSeq([i \in 1..(Len(seq_numbers) - 1) |-> kind(i + 1)],
                                LAMBDA k : k # "none")

\* ---- what the detectors share ----
Indices(n) == [i \in 1..n |-> i]

\* The indicators of every packet of the list
IndicatorsOf(pkts) == [i \in 1..Len(pkts) |-> extract_l1_indicators(pkts[i].payload)]

\* packets[max(0, i-before) : i+after] around the packet at 1-based position at
Around(pkts, at, before, after) == PySlice(pkts, Max2(0, at - 1 - before), at - 1 + after)

Anomaly(number, anomaly_type, confidence) ==
    [packet_number |-> number, anomaly_type |-> anomaly_type,
     confidence |-> confidence]

UncappedStrength(indicators) == FDiv(FInt(Len(indicators)), 2 * Scale)

\* min(len(failure_indicators) / 2.0, 1.0)
HalfStrength(indicators) == PyMin(FDiv(FInt(Len(indicators)), 2 * Scale), Scale)

\* t or fallback, of a threshold or None: 0.0 is as false as None
OrFallback(t, fallback) == IF t.some /\ t.val # 0 THEN t.val ELSE fallback

\* The threshold of the RACH attempts for every detector
ThresholdOfRachAttempts(trk, anomaly_type, metric_name, fallback) ==
    OrFallback(get_adaptive_threshold(trk.baselines, "rach", "attempt_count", 2 * Scale),
               fallback)

\* get_adaptive_threshold(...) or fallback
ThresholdOr(trk, anomaly_type, metric_name, fallback) ==
    OrFallback(get_adaptive_threshold(trk.baselines, anomaly_type, metric_name, 2 * Scale),
               fallback)

\* baseline_deviation = deviation if is_anom else 0.5
BaselineDeviation(verdict) == IF verdict.anomalous THEN verdict.deviation ELSE 50

\* 0.9 (or the score given) if the events make a burst, else 0.5
BurstScore(timestamps, score) ==
    IF Len(timestamps) >= 3 /\ analyze_event_rate(timestamps).burst_detected
    THEN score ELSE 50

Times(pkts, idx) == [k \in 1..Len(idx) |-> pkts[idx[k]].time]

\* What a detector hands back: its anomalies, the tracker afterwards and the
\* exception its try block caught, if any
Detected(anomalies, trk, caught) == [anomalies |-> anomalies, trk |-> trk, caught |-> caught]

\* A failure or attempt rate: failures / attempts
Ratio(failures, attempts) == FDiv(FInt(failures), FInt(attempts))

\* ---- detect_rach_failures ----
\* The record of the k-th failing RACH packet, the packet at position at
RachTemporalScore(timing_features) ==
    50 + (IF timing_features.present /\ FGt(timing_features.jitter, 10)
          THEN 20 ELSE 0)
       + (IF timing_features.present /\ FGt(timing_features.max_inter_arrival, Scale)
          THEN 30 ELSE 0)

RachFailure(trk, pkts, ind, at, k) ==
    LET pattern_strength == FDiv(FInt(Len(ind[at].failure_indicators)), 3 * Scale)
        temporal_score == RachTemporalScore(extract_timing_features(Around(pkts, at, 5, 5)))
        baseline_deviation ==
            BaselineDeviation(is_anomalous(trk.baselines, "rach", "attempt_count", FInt(k),
                                           Scale))
        confidence ==
            PyMin(FAdd(FAdd(FMul(pattern_strength, 40), FMul(temporal_score, 30)),
                       FMul(baseline_deviation, 30)), Scale)
    IN  Anomaly(at, "RACH Failure", PyMax(confidence, 70))

\* severity_map.get(burst_severity, 0.70)
SeverityConfidence(burst_severity) ==
    CASE burst_severity = "critical" -> 95
      [] burst_severity = "high" -> 85
      [] burst_severity = "medium" -> 75
      [] burst_severity = "low" -> 65
      [] OTHER -> 70

detect_rach_failures(trk, pkts) ==
    LET ind == IndicatorsOf(pkts)
        rach == SelectSeq(Indices(Len(pkts)), LAMBDA i : pkts[i].raw /\ ind[i].has_rach)
        failed == SelectSeq(rach, LAMBDA i : Len(ind[i].failure_indicators) > 0)
        rach_attempts == Len(rach)
        rach_failures == Len(failed)
        failures == [k \in 1..Len(failed) |-> RachFailure(trk, pkts, ind, failed[k], k)]
        counted == update_baseline(trk, "rach", "attempt_count", FInt(rach_attempts))
        rated == IF rach_attempts > 0
                 THEN update_baseline(counted, "rach", "success_rate",
                                      FSub(Scale, Ratio(rach_failures, rach_attempts)))
                 ELSE counted
        rach_timestamps == Times(pkts, rach)
        temporal_analysis == analyze_event_rate(rach_timestamps)
        burst == Len(rach_timestamps) >= 3 /\ temporal_analysis.burst_detected
        threshold == ThresholdOr(rated, "rach", "attempt_count", 10 * Scale)
        verdict == is_anomalous(rated.baselines, "rach", "attempt_count",
                                FInt(rach_attempts), Scale)
        excessive ==
            IF FGt(FInt(rach_attempts), threshold)
            THEN <<Anomaly(1, "Excessive RACH Attempts",
                           PyMin(FAdd(65, FMul(verdict.deviation, 30)), 95))>>
            ELSE <<>>
    IN  IF burst /\ "max_window_rate" \notin DOMAIN temporal_analysis
        THEN \* the record's details read a key the zero-duration result lacks
             Detected(failures, rated, "KeyError")
        ELSE Detected(failures
                      \o (IF burst
                          THEN <<Anomaly(1, "RACH Burst Pattern",
                                         SeverityConfidence(temporal_analysis.burst_severity))>>
                          ELSE <<>>)
                      \o excessive, rated, "")

\* ---- detect_handover_failures ----
HandoverSequenceScore(sequence_anomalies) ==
    IF Len(sequence_anomalies) > 0
    THEN PyMin(FDiv(FInt(Len(sequence_anomalies)), 5 * Scale), Scale)
    ELSE 30

HandoverFailure(trk, pkts, ind, at) ==
    LET pattern_strength == HalfStrength(ind[at].failure_indicators)
        sequence_score ==
            HandoverSequenceScore(detect_sequence_anomalies(Around(pkts, at, 10, 10)))
        baseline_deviation ==
            BaselineDeviation(is_anomalous(trk.baselines, "handover", "success_rate", 0,
                                           Scale))
        confidence ==
            PyMin(FAdd(FAdd(FMul(pattern_strength, 50), FMul(sequence_score, 20)),
                       FMul(baseline_deviation, 30)), Scale)
    IN  Anomaly(at, "Handover Failure", PyMax(confidence, 75))

detect_handover_failures(trk, pkts) ==
    LET ind == IndicatorsOf(pkts)
        handover == SelectSeq(Indices(Len(pkts)),
                              LAMBDA i : pkts[i].raw /\ ind[i].has_handover)
        failed == SelectSeq(handover, LAMBDA i : Len(ind[i].failure_indicators) > 0)
        handover_attempts == Len(handover)
        handover_failures == Len(failed)
        failures == [k \in 1..Len(failed) |-> HandoverFailure(trk, pkts, ind, failed[k])]
        counted == update_baseline(trk, "handover", "attempt_count", FInt(handover_attempts))
        success_rate == FSub(Scale, Ratio(handover_failures, handover_attempts))
        rated == update_baseline(counted, "handover", "success_rate", success_rate)
        verdict == is_anomalous(rated.baselines, "handover", "success_rate", success_rate,
                                Scale)
    IN  IF handover_attempts > 0
        THEN Detected(failures
                      \o (IF verdict.anomalous /\ FLt(success_rate, 85)
                          THEN <<Anomaly(1, "Low Handover Success Rate",
                                         PyMin(FAdd(70, FMul(verdict.deviation, 25)), 95))>>
                          ELSE <<>>), rated, "")
        ELSE Detected(failures, counted, "")

\* ---- detect_harq_retransmissions ----
\* max_consecutive: the longest run of retransmissions among the HARQ
\* packets, retx[k] telling whether the k-th of them is one
MaxConsecutive(retx) ==
    LET RunEndingAt(k) ==
            IF ~retx[k] THEN 0
            ELSE k - SeqMax([j \in 1..k |-> IF j = 1 /\ retx[1] THEN 0
                                            ELSE IF retx[j] THEN 0 ELSE j])
    IN  IF Len(retx) = 0 THEN 0 ELSE SeqMax([k \in 1..Len(retx) |-> RunEndingAt(k)])

detect_harq_retransmissions(trk, pkts) ==
    LET ind == IndicatorsOf(pkts)
        harq == SelectSeq(Indices(Len(pkts)), LAMBDA i : pkts[i].raw /\ ind[i].has_harq)
        IsRetransmission(i) == In("retx", LowerPayload(pkts[i].payload))
                               \/ In("nack", LowerPayload(pkts[i].payload))
        retransmitted == SelectSeq(harq, IsRetransmission)
        total_harq_packets == Len(harq)
        retransmission_count == Len(retransmitted)
        max_consecutive == MaxConsecutive([k \in 1..Len(harq) |-> IsRetransmission(harq[k])])
        retransmission_rate == Ratio(retransmission_count, total_harq_packets)
        rated == update_baseline(
                    update_baseline(trk, "harq", "retransmission_rate", retransmission_rate),
                    "harq", "max_consecutive_retx", FInt(max_consecutive))
        verdict == is_anomalous(rated.baselines, "harq", "retransmission_rate",
                                retransmission_rate, Scale)
        threshold == ThresholdOr(rated, "harq", "retransmission_rate", 15)
        temporal_score == BurstScore(Times(pkts, retransmitted), 90)
        confidence == PyMin(FAdd(FAdd(FMul(verdict.deviation, 40), FMul(temporal_score, 40)),
                                 20), Scale)
    IN  IF total_harq_packets > 0
        THEN Detected((IF FGt(retransmission_rate, threshold) \/ max_consecutive > 3
                       THEN <<Anomaly(1, "Excessive HARQ Retransmissions",
                                      PyMax(confidence, 70))>>
                       ELSE <<>>)
                      \o (IF max_consecutive >= 5
                          THEN <<Anomaly(1, "HARQ Retransmission Burst", 85)>>
                          ELSE <<>>), rated, "")
        ELSE Detected(<<>>, trk, "")

\* ---- detect_crc_errors ----
\* The record of a CRC packet with an error: none of the error indicators,
\* which are the names of error patterns, contains 'crc'
CrcError(ind, at) ==
    LET crc_named == SelectSeq(ind[at].error_indicators, LAMBDA x : x = "crc")
        pattern_strength == IF Len(ind[at].error_indicators) > 0
                            THEN HalfStrength(crc_named) ELSE 80
    IN  Anomaly(at, "CRC Error", PyMax(pattern_strength, 85))

detect_crc_errors(trk, pkts) ==
    LET ind == IndicatorsOf(pkts)
        crc == SelectSeq(Indices(Len(pkts)), LAMBDA i : pkts[i].raw /\ ind[i].has_crc)
        HasError(i) == In("error", LowerPayload(pkts[i].payload))
                       \/ In("fail", LowerPayload(pkts[i].payload))
        errored == SelectSeq(crc, HasError)
        total_packets_checked == Len(crc)
        crc_errors == Len(errored)
        error_records == [k \in 1..Len(errored) |-> CrcError(ind, errored[k])]
        error_rate == Ratio(crc_errors, total_packets_checked)
        errors_per_1000 == FMul(error_rate, 1000 * Scale)
        rated == update_baseline(update_baseline(trk, "crc", "error_rate", error_rate),
                                 "crc", "errors_per_1000_packets", errors_per_1000)
        verdict == is_anomalous(rated.baselines, "crc", "error_rate", error_rate, Scale)
        temporal_score == BurstScore(Times(pkts, errored), 90)
        confidence == PyMin(FAdd(FAdd(FMul(verdict.deviation, 50), FMul(temporal_score, 40)),
                                 10), Scale)
    IN  IF total_packets_checked > 100
        THEN Detected(error_records
                      \o (IF verdict.anomalous \/ FGt(error_rate, 1)
                          THEN <<Anomaly(1, "High CRC Error Rate", PyMax(confidence, 75))>>
                          ELSE <<>>), rated, "")
        ELSE Detected(error_records, trk, "")

\* ---- detect_rrc_connection_failures ----
RrcFailure(pkts, ind, at) ==
    LET pattern_strength == HalfStrength(ind[at].failure_indicators)
        sequence_anomalies == detect_sequence_anomalies(Around(pkts, at, 5, 5))
        sequence_score == FAdd(30, PyMin(FDiv(FInt(Len(sequence_anomalies)), 3 * Scale), 50))
        confidence == PyMin(FAdd(FMul(pattern_strength, 50), FMul(sequence_score, 50)), Scale)
    IN  Anomaly(at, "RRC Connection Failure", PyMax(confidence, 80))

detect_rrc_connection_failures(trk, pkts) ==
    LET ind == IndicatorsOf(pkts)
        rrc == SelectSeq(Indices(Len(pkts)), LAMBDA i : pkts[i].raw /\ ind[i].has_rrc)
        \* the tests on the payload as it is, not lowered
        attempted == SelectSeq(rrc, LAMBDA i : In("Connect", pkts[i].payload)
                                               \/ In("Setup", pkts[i].payload))
        failed == SelectSeq(rrc, LAMBDA i : In("Reject", pkts[i].payload)
                                            \/ In("Fail", pkts[i].payload))
        rrc_attempts == Len(attempted)
        rrc_failures == Len(failed)
        failures == [k \in 1..Len(failed) |-> RrcFailure(pkts, ind, failed[k])]
        success_rate == FSub(Scale, Ratio(rrc_failures, rrc_attempts))
        rated == update_baseline(
                    update_baseline(trk, "rrc", "connection_success_rate", success_rate),
                    "rrc", "setup_attempts", FInt(rrc_attempts))
        verdict == is_anomalous(rated.baselines, "rrc", "connection_success_rate",
                                success_rate, Scale)
    IN  IF rrc_attempts > 0
        THEN Detected(failures
                      \o (IF verdict.anomalous /\ FLt(success_rate, 90)
                          THEN <<Anomaly(1, "Low RRC Connection Success Rate",
                                         PyMin(FAdd(75, FMul(verdict.deviation, 20)), 95))>>
                          ELSE <<>>), rated, "")
        ELSE Detected(failures, trk, "")

\* ---- detect_timing_advance_violations ----
TaTemporalScore(timing_features) ==
    IF timing_features.present /\ FGt(timing_features.jitter, 5) THEN 80 ELSE 50

TaViolation(pkts, ind, at) ==
    LET pattern_strength == IF Len(ind[at].failure_indicators) > 0
                            THEN HalfStrength(ind[at].failure_indicators) ELSE 70
        temporal_score == TaTemporalScore(extract_timing_features(Around(pkts, at, 5, 5)))
        confidence == PyMin(FAdd(FMul(pattern_strength, 60), FMul(temporal_score, 40)), Scale)
    IN  Anomaly(at, "Timing Advance Violation", PyMax(confidence, 75))

detect_timing_advance_violations(trk, pkts) ==
    LET ind == IndicatorsOf(pkts)
        ta == SelectSeq(Indices(Len(pkts)),
                        LAMBDA i : pkts[i].raw /\ ind[i].has_timing_advance)
        violating == SelectSeq(ta, LAMBDA i :
                        AnyIn({"violation", "out of range", "invalid"},
                              LowerPayload(pkts[i].payload)))
        ta_adjustments == Len(ta)
        ta_violations == Len(violating)
        violations == [k \in 1..Len(violating) |-> TaViolation(pkts, ind, violating[k])]
        violation_rate == Ratio(ta_violations, ta_adjustments)
        rated == update_baseline(
                    update_baseline(trk, "timing_advance", "violation_rate", violation_rate),
                    "timing_advance", "avg_ta_adjustments", FInt(ta_adjustments))
        verdict == is_anomalous(rated.baselines, "timing_advance", "violation_rate",
                                violation_rate, Scale)
        temporal_score == BurstScore(Times(pkts, violating), 90)
        confidence == PyMin(FAdd(FAdd(FMul(verdict.deviation, 50), FMul(temporal_score, 40)),
                                 10), Scale)
    IN  IF ta_adjustments > 0
        THEN Detected(violations
                      \o (IF verdict.anomalous /\ FGt(violation_rate, 5)
                          THEN <<Anomaly(1, "High TA Violation Rate", PyMax(confidence, 70))>>
                          ELSE <<>>), rated, "")
        ELSE Detected(violations, trk, "")

\* ---- detect_power_control_anomalies ----
PowerIssue(ind, at) ==
    LET pattern_strength == IF Len(ind[at].failure_indicators) > 0
                            THEN HalfStrength(ind[at].failure_indicators) ELSE 60
    IN  Anomaly(at, "Power Control Anomaly", PyMax(pattern_strength, 70))

detect_power_control_anomalies(trk, pkts) ==
    LET ind == IndicatorsOf(pkts)
        power == SelectSeq(Indices(Len(pkts)),
                           LAMBDA i : pkts[i].raw /\ ind[i].has_power_control)
        troubled == SelectSeq(power, LAMBDA i :
                        Len(ind[i].failure_indicators) > 0
                        \/ AnyIn({"exceed", "limit"}, LowerPayload(pkts[i].payload)))
        power_adjustments == Len(power)
        issues == [k \in 1..Len(troubled) |-> PowerIssue(ind, troubled[k])]
        adjustment_frequency == Ratio(power_adjustments, Len(pkts))
        rated == update_baseline(trk, "power_control", "adjustment_frequency",
                                 adjustment_frequency)
        verdict == is_anomalous(rated.baselines, "power_control", "adjustment_frequency",
                                adjustment_frequency, Scale)
        temporal_score == BurstScore(Times(pkts, troubled), 80)
        confidence == PyMin(FAdd(FAdd(FMul(verdict.deviation, 40), FMul(temporal_score, 40)),
                                 20), Scale)
    IN  IF power_adjustments > 50
        THEN Detected(issues
                      \o (IF verdict.anomalous /\ FGt(adjustment_frequency, 20)
                          THEN <<Anomaly(1, "Excessive Power Control Activity",
                                         PyMax(confidence, 65))>>
                          ELSE <<>>), rated, "")
        ELSE Detected(issues, trk, "")

\* ---- the files of the folder ----
\* A file is a run of segments: count packets of one payload, gap apart in
\* time, the ids of their IP headers id_step apart
Seg(payload, count, gap, id_step, raw) ==
    [payload |-> payload, count |-> count, gap |-> gap, id_step |-> id_step, raw |-> raw]

RECURSIVE SumTo(_, _)
SumTo(q, s) == IF s = 0 THEN 0 ELSE q[s] + SumTo(q, s - 1)

\* The packets of the segments, in order
PacketsOf(segs) ==
    LET counts == [j \in 1..Len(segs) |-> segs[j].count]
        spans == [j \in 1..Len(segs) |-> segs[j].count * segs[j].gap]
        ids == [j \in 1..Len(segs) |-> segs[j].count * segs[j].id_step]
        SegOf(i) == CHOOSE s \in 1..Len(segs) :
                        SumTo(counts, s - 1) < i /\ i <= SumTo(counts, s)
    IN  [i \in 1..SumTo(counts, Len(segs)) |->
            LET s == SegOf(i)
                k == i - SumTo(counts, s - 1)
            IN  [raw |-> segs[s].raw, payload |-> segs[s].payload,
                 time |-> SumTo(spans, s - 1) + k * segs[s].gap,
                 ip_id |-> 1000 + SumTo(ids, s - 1) + k * segs[s].id_step]]

\* A packet of every protocol category, without an error pattern
CalmWords == <<"rach", "handover", "harq", "crc", "rrc", "Setup", "ta", "tpc">>

\* The same, rejected: two failure indicators, none of them a CRC error
RejectedWords ==
    <<"rach", "handover", "harq", "retx", "crc", "rrc", "Setup", "Reject", "ta",
      "invalid", "tpc">>

\* The same with every error pattern there is
StormWords ==
    <<"rach", "handover", "harq", "nack", "crc", "error", "fail", "rrc", "Setup",
      "Reject", "timeout", "ta", "violation", "invalid", "tpc", "limit">>

\* Packets that only fill the file up to the sizes the CRC and the power
\* control detectors ask for
BulkPower == 47

BulkCrc == 51

BulkStorm == 88

StormPackets == 12

\* The rejected RACH packets of the file of rejects and the unrelated packets
\* on either side of them
RejectPackets == 50

\* The packets of the dense file, all at one time
DensePackets == 12

UnrelatedPackets == 20

Half == Scale \div 2

FileKinds ==
    {"calm", "busy", "storm", "burst", "simultaneous", "dlf", "rejects", "empty",
     "irrelevant", "dense"}

FileType(kind) == IF kind = "dlf" THEN "DLF" ELSE "PCAP"

FilePackets(kind) ==
    CASE kind = "calm" ->
            PacketsOf(<<Seg(CalmWords, 4, Half, 1, TRUE),
                        Seg(<<"crc", "tpc">>, BulkPower, Half, 1, TRUE),
                        Seg(<<"crc">>, BulkCrc, Half, 1, TRUE)>>)
      [] kind = "busy" ->
            PacketsOf(<<Seg(CalmWords, 4, Half, 1, TRUE),
                        Seg(RejectedWords, 2, 3 * Scale, 20, TRUE),
                        Seg(<<"crc", "tpc">>, BulkPower + 10, Half, 1, TRUE),
                        Seg(<<"crc">>, BulkCrc - 10, Half, 1, TRUE)>>)
      [] kind = "storm" ->
            PacketsOf(<<Seg(<<"crc", "idle">>, 2, 3 * Scale, 1, TRUE),
                        Seg(StormWords, StormPackets, Half, 0, TRUE),
                        Seg(<<"crc", "tpc">>, BulkStorm, Half, 1, TRUE)>>)
      [] kind = "burst" ->
            PacketsOf(<<Seg(<<"rach">>, 10, Scale, 1, TRUE),
                        Seg(<<"rach">>, 20, WindowDuration, 1, TRUE)>>)
      [] kind = "simultaneous" ->
            PacketsOf(<<Seg(<<"rach", "data">>, 5, 0, 1, TRUE)>>)
      [] kind = "dlf" ->
            PacketsOf(<<Seg(StormWords, 3, Half, 1, FALSE)>>)
      [] kind = "empty" -> <<>>
      [] kind = "dense" ->
            PacketsOf(<<Seg(<<"idle">>, DensePackets, 0, 1, TRUE)>>)
      [] kind = "irrelevant" ->
            PacketsOf(<<Seg(<<"idle", "error">>, BulkCrc + BulkPower + 4, Half, 1, TRUE)>>)
      [] kind = "rejects" ->
            PacketsOf(<<Seg(<<"idle">>, UnrelatedPackets, Scale \div 10, 1, TRUE),
                        Seg(<<"rach", "reject">>, RejectPackets, Scale \div 10, 1, TRUE),
                        Seg(<<"data">>, UnrelatedPackets, Scale \div 10, 1, TRUE)>>)

\* ---- the scorer's part of process_single_file ----
\* self.time_window of MLAnomalyDetector, 0.1 s
TimeWindow == Scale \div 10

\* The time windows extract_pcap_features_basic groups the packets into
TimeWindows(pkts) ==
    {(pkts[i].time - pkts[1].time) \div TimeWindow : i \in 1..Len(pkts)}

\* The feature windows of a file, of which the model keeps MinWindows at most
FeatureWindows(pkts) == Min2(Cardinality(TimeWindows(pkts)), MinWindows)

\* What the four algorithms answer: the voters flag the windows flagged
Answer(voters, flagged, n) ==
    [a \in {Algorithms[j] : j \in 1..Len(Algorithms)} |->
        [i \in 1..n |-> IF a \in voters /\ i \in flagged THEN 0 - 1
                        ELSE IF a = "dbscan" THEN 0 ELSE 1]]

ScorerAnswers(n) ==
    {Answer({}, {}, n), Answer({"isolation_forest"}, {2}, n),
     Answer({Algorithms[j] : j \in 1..Len(Algorithms)}, 1..n, n)}

\* The result of analyze_pcap without a call of run_ml_ensemble_analysis
WarningResult(disk, warning) ==
    [disk |-> disk, anomalies |-> <<>>, warning |-> warning, mode |-> "", error |-> ""]

\* analyze_pcap that hands every file to the ensemble
AnalyzesAnyPcap(disk, file, pkts, predictions) ==
    LET r == run_ml_ensemble_analysis(NewDetector(disk, DefaultRetrainThreshold), disk,
                                      FeatureMatrix(file, MinWindows),
                                      PacketMetadata(MinWindows), predictions)
    IN  [disk |-> r.disk, anomalies |-> IF r.raised = "" THEN r.anomalies ELSE <<>>,
         warning |-> "", mode |-> r.mode, error |-> r.raised]

\* analyze_pcap of a new MLAnomalyDetector(): the directories afterwards,
\* result['anomalies'], result['warning'] where there is one, the mode the
\* ensemble ran in ("" where it did not) and result['error']
analyze_pcap(disk, file, pkts, predictions) ==
    IF Len(pkts) < 10 THEN WarningResult(disk, "Too few packets")
    ELSE IF FeatureWindows(pkts) < MinWindows
    THEN WarningResult(disk, "Insufficient feature windows")
    ELSE LET n == FeatureWindows(pkts)
             r == run_ml_ensemble_analysis(NewDetector(disk, DefaultRetrainThreshold), disk,
                                           FeatureMatrix(file, n), PacketMetadata(n),
                                           predictions)
         IN  \* an exception of the analysis leaves result['anomalies'] empty
             [disk |-> r.disk, anomalies |-> IF r.raised = "" THEN r.anomalies ELSE <<>>,
              warning |-> "", mode |-> r.mode, error |-> r.raised]

\* The record process_single_file makes of an anomaly of the scorer
CommunicationAnomaly(anomaly) ==
    Anomaly(anomaly.packet_number, "DU-RU Communication", anomaly.confidence)

\* ---- ClickHouseFolderAnalyzer ----
\* The folder: a history of calm files, or of calm and busy files in turn,
\* and after 0, MinSamples - 1 or MinSamples of them one file of another kind
Histories == {"steady", "varied"}

SwitchPoints == {0, MinSamples - 1, MinSamples}

Probes ==
    {"storm", "burst", "simultaneous", "dlf", "rejects", "empty", "irrelevant", "dense"}

HistoryFile(history, files_done) ==
    IF history = "varied" /\ files_done % 2 = 1 THEN "busy" ELSE "calm"

DetInitWith(H) ==
    /\ det_pc = "idle"
    /\ det_file = "none"
    /\ det_anomalies = <<>>
    /\ det_caught = ""
    /\ det_feed \in {[history |-> h, files_done |-> 0, probed |-> FALSE] : h \in H}

DetInit == DetInitWith(Histories)

\* The analyzer as constructed, where it is not the component under study
DetIdle == DetInitWith({"steady"})

\* process_single_file up to the first detector: for a PCAP file the scorer
\* runs on it and its anomalies become records of the file
ProcessSingleFile ==
    /\ det_pc = "idle"
    /\ ~det_feed.probed
    /\ \E kind \in {HistoryFile(det_feed.history, det_feed.files_done)}
                   \cup (IF det_feed.files_done \in SwitchPoints THEN Probes ELSE {}) :
         /\ kind \in Probes \/ det_feed.files_done < MinSamples
         /\ det_file' = kind
         /\ det_feed' = [det_feed EXCEPT !.probed = kind \in Probes]
         /\ IF FileType(kind) = "PCAP"
            THEN \E predictions \in ScorerAnswers(MinWindows) :
                   \E result \in {analyze_pcap(ml_disk, det_feed.files_done + 1,
                                               FilePackets(kind), predictions)} :
                       /\ ml_disk' = result.disk
                       /\ ml_call' = [op |-> "analyze_pcap", warning |-> result.warning,
                                      mode |-> result.mode, error |-> result.error,
                                      anomalies |-> result.anomalies]
                       /\ det_anomalies' =
                              [i \in 1..Len(result.anomalies) |->
                                  CommunicationAnomaly(result.anomalies[i])]
            ELSE /\ det_anomalies' = <<>>
                 /\ UNCHANGED <<ml_disk, ml_call>>
    /\ det_pc' = "rach"
    /\ det_caught' = ""
    /\ UNCHANGED <<baselines, statistics>>

\* One detector of process_single_file on the packets of the file
Detect(at, detected, then) ==
    /\ det_pc = at
    /\ det_anomalies' = det_anomalies \o detected.anomalies
    /\ SetTracker(detected.trk)
    /\ det_caught' = detected.caught
    /\ det_pc' = then
    /\ UNCHANGED <<det_file, ml_disk, ml_call>>

DetectRachFailures ==
    /\ det_pc = "rach"
    /\ Detect("rach", detect_rach_failures(TheTracker, FilePackets(det_file)), "handover")
    /\ UNCHANGED det_feed

DetectHandoverFailures ==
    /\ det_pc = "handover"
    /\ Detect("handover", detect_handover_failures(TheTracker, FilePackets(det_file)), "harq")
    /\ UNCHANGED det_feed

DetectHarqRetransmissions ==
    /\ det_pc = "harq"
    /\ Detect("harq", detect_harq_retransmissions(TheTracker, FilePackets(det_file)), "crc")
    /\ UNCHANGED det_feed

DetectCrcErrors ==
    /\ det_pc = "crc"
    /\ Detect("crc", detect_crc_errors(TheTracker, FilePackets(det_file)), "rrc")
    /\ UNCHANGED det_feed

DetectRrcConnectionFailures ==
    /\ det_pc = "rrc"
    /\ Detect("rrc", detect_rrc_connection_failures(TheTracker, FilePackets(det_file)), "ta")
    /\ UNCHANGED det_feed

DetectTimingAdvanceViolations ==
    /\ det_pc = "ta"
    /\ Detect("ta", detect_timing_advance_violations(TheTracker, FilePackets(det_file)),
              "power")
    /\ UNCHANGED det_feed

\* The last detector; the file is then counted as processed
DetectPowerControlAnomalies ==
    /\ det_pc = "power"
    /\ Detect("power", detect_power_control_anomalies(TheTracker, FilePackets(det_file)),
              "idle")
    /\ det_feed' = [det_feed EXCEPT !.files_done = @ + 1]

DetNext ==
    \/ ProcessSingleFile
    \/ DetectRachFailures
    \/ DetectHandoverFailures
    \/ DetectHarqRetransmissions
    \/ DetectCrcErrors
    \/ DetectRrcConnectionFailures
    \/ DetectTimingAdvanceViolations
    \/ DetectPowerControlAnomalies

(***************************************************************************)
(* Properties of the detectors.                                            *)
(***************************************************************************)
AnomalyTypes == {det_anomalies[i].anomaly_type : i \in 1..Len(det_anomalies)}

ConfidenceOf(anomaly_type) ==
    {det_anomalies[i].confidence :
        i \in {j \in 1..Len(det_anomalies) : det_anomalies[j].anomaly_type = anomaly_type}}

\* The records of the file so far that are of the type given
RecordsOf(anomaly_type) ==
    {i \in 1..Len(det_anomalies) : det_anomalies[i].anomaly_type = anomaly_type}

\* The positions of the packets whose payload is of the RACH category
RachPackets(pkts) ==
    {i \in 1..Len(pkts) : extract_l1_indicators(pkts[i].payload).has_rach}

\* Every RACH packet of the list carries a failure keyword, and there is one
AllRachRejected(pkts) ==
    /\ RachPackets(pkts) # {}
    /\ \A i \in RachPackets(pkts) :
           Len(extract_l1_indicators(pkts[i].payload).failure_indicators) > 0

\* C11 as stated: for a file whose RACH packets each carry a failure keyword,
\* detect_rach_failures returns one RACH failure record per such packet and
\* exactly one burst pattern record, its confidence one of 0.95, 0.85, 0.75
\* and 0.65.
C11_RejectedRachYieldsBurstRecord ==
    (det_pc = "handover" /\ AllRachRejected(FilePackets(det_file))) =>
        /\ {det_anomalies[i].packet_number : i \in RecordsOf("RACH Failure")}
               = RachPackets(FilePackets(det_file))
        /\ Cardinality(RecordsOf("RACH Failure"))
               = Cardinality(RachPackets(FilePackets(det_file)))
        /\ Cardinality(RecordsOf("RACH Burst Pattern")) = 1
        /\ \A i \in RecordsOf("RACH Burst Pattern") :
               det_anomalies[i].confidence \in {95, 85, 75, 65}

\* What the code does with the file of rejects: a record per rejected packet,
\* and none of a burst, as the packets are evenly spaced
C11_RejectsWithoutBurst ==
    /\ det_pc = "handover" /\ det_file = "rejects"
    /\ Cardinality(RecordsOf("RACH Failure")) = RejectPackets
    /\ RecordsOf("RACH Burst Pattern") = {}
    /\ det_caught = ""

\* The words that make a packet one of a detector's category, by the position
\* of the detector in process_single_file
CategoryWords ==
    [rach |-> {"rach"}, handover |-> {"handover"}, harq |-> {"harq", "retx", "nack"},
     crc |-> {"crc"}, rrc |-> {"rrc", "Setup", "setup"}, ta |-> {"ta", "data"},
     power |-> {"tpc"}]

\* No packet of the list, which may be empty, is of the detector's category
NoPacketOf(detector, pkts) ==
    \A i \in 1..Len(pkts) :
        \A j \in 1..Len(pkts[i].payload) : pkts[i].payload[j] \notin CategoryWords[detector]

\* C12: on an empty packet stream, or one in which no packet is of the
\* detector's category, each of the seven detectors returns no record, and no
\* exception occurs in it.
C12_NoRecordsWithoutCategory ==
    [][(/\ det_pc \in DOMAIN CategoryWords
        /\ det_pc' # det_pc
        /\ NoPacketOf(det_pc, FilePackets(det_file)))
       => (det_anomalies' = det_anomalies /\ det_caught' = "")]_vars

\* The seven detectors have run on the file without a packet of any category
C12_Witness ==
    /\ det_pc = "idle" /\ det_file = "irrelevant" /\ det_feed.probed
    /\ det_feed.files_done = MinSamples + 1
    /\ \A d \in DOMAIN CategoryWords : NoPacketOf(d, FilePackets(det_file))
    /\ AnomalyTypes \subseteq {"DU-RU Communication"}
    /\ det_caught = ""

\* The same for the empty file
C12_EmptyFileWitness ==
    /\ det_pc = "idle" /\ det_file = "empty" /\ det_feed.probed
    /\ det_anomalies = <<>>

\* Fewer than 10 packets, or fewer than 3 time windows with packets
InsufficientData(pkts) == Len(pkts) < 10 \/ Cardinality(TimeWindows(pkts)) < 3

\* C14: when a PCAP file has fewer than 10 packets or fewer than 3 feature
\* windows, analyze_pcap returns a warning result without anomalies and
\* without an error, no detector is fitted or run, and metadata.json (with
\* files_processed), the .pkl files and the accumulated features stay as they
\* were; the file gets no record of the scorer.
C14_InsufficientDataLeavesStateUnchanged ==
    [][(/\ det_pc = "idle" /\ det_pc' = "rach"
        /\ FileType(det_file') = "PCAP"
        /\ InsufficientData(FilePackets(det_file')))
       => (/\ ml_call'.op = "analyze_pcap"
           /\ ml_call'.warning # "" /\ ml_call'.error = ""
           /\ ml_call'.anomalies = <<>>
           /\ ml_call'.mode = ""
           /\ ml_disk' = ml_disk
           /\ det_anomalies' = <<>>)]_vars

\* A file of 12 packets in one window has been analysed after files that
\* trained the models and filled the store
C14_Witness ==
    /\ det_pc = "rach" /\ det_file = "dense"
    /\ Len(FilePackets(det_file)) >= 10
    /\ ml_call.op = "analyze_pcap" /\ ml_call.warning = "Insufficient feature windows"
    /\ ml_disk.metadata.exists /\ ml_disk.metadata.files_processed > 0
    /\ ml_disk.features.exists

\* The same for a file of fewer than 10 packets
C14_FewPacketsWitness ==
    /\ det_pc = "rach" /\ det_file = "simultaneous"
    /\ ml_call.op = "analyze_pcap" /\ ml_call.warning = "Too few packets"
    /\ ml_disk.metadata.exists

\* ---- the detectors one by one ----
\* The category of the baseline tracker each detector works with
DetCategory ==
    [rach |-> "rach", handover |-> "handover", harq |-> "harq", crc |-> "crc",
     rrc |-> "rrc", ta |-> "timing_advance", power |-> "power_control"]

RunDetector(detector, trk, pkts) ==
    CASE detector = "rach" -> detect_rach_failures(trk, pkts)
      [] detector = "handover" -> detect_handover_failures(trk, pkts)
      [] detector = "harq" -> detect_harq_retransmissions(trk, pkts)
      [] detector = "crc" -> detect_crc_errors(trk, pkts)
      [] detector = "rrc" -> detect_rrc_connection_failures(trk, pkts)
      [] detector = "ta" -> detect_timing_advance_violations(trk, pkts)
      [] detector = "power" -> detect_power_control_anomalies(trk, pkts)

\* The tracker with the histories of one category only, as if no detector of
\* another category had ever run
OwnOnly(trk, category) ==
    [baselines |-> [k \in Keys |-> IF k[1] = category THEN trk.baselines[k] ELSE <<>>],
     statistics |-> [k \in Keys |-> IF k[1] = category THEN trk.statistics[k]
                                    ELSE [count |-> 0, sum |-> 0, sum_sq |-> 0]]]

\* What the detector gives on the histories of its own category alone
Alone(detector) ==
    RunDetector(detector, OwnOnly(TheTracker, DetCategory[detector]), FilePackets(det_file))

\* The step of the detector d gives what `alone` holds: the histories of
\* the other categories stay, those of its own and the records are alone's
StepGives(d, alone) ==
    /\ \A k \in Keys :
          IF k[1] = DetCategory[d]
          THEN /\ baselines'[k] = alone.trk.baselines[k]
               /\ statistics'[k] = alone.trk.statistics[k]
          ELSE /\ baselines'[k] = baselines[k]
               /\ statistics'[k] = statistics[k]
    /\ det_anomalies' = det_anomalies \o alone.anomalies

\* C22: a detector's records and the baseline entries it changes do not
\* depend on the other detectors: its step leaves the histories of every
\* other category as they were, and its records and the histories of its own
\* category are those it gives when the other categories have no history.
C22_DetectorsIndependent ==
    [][\A d \in DOMAIN DetCategory :
          (det_pc = d /\ det_pc' # d) => StepGives(d, Alone(d))]_vars

\* The HARQ detector has run on the storm after the other detectors have
\* filled their histories, and has used its own history for its record
C22_Witness ==
    /\ det_pc = "crc" /\ det_file = "storm"
    /\ Len(baselines[<<"rach", "attempt_count">>]) >= MinSamples
    /\ Len(baselines[<<"handover", "attempt_count">>]) >= MinSamples
    /\ Len(baselines[<<"harq", "retransmission_rate">>]) > MinSamples
    /\ "Excessive HARQ Retransmissions" \in AnomalyTypes

\* The history of the key is as it was, or has got one observation more
AtMostOneAppended(k) ==
    \/ baselines'[k] = baselines[k] /\ statistics'[k] = statistics[k]
    \/ /\ statistics'[k].count = statistics[k].count + 1
       /\ baselines'[k] # <<>>
       /\ baselines'[k] =
              DequeAppend(baselines[k], Capacity(k), baselines'[k][Len(baselines'[k])])

\* The RACH packets of the whole file
RachPacketsOf(pkts) ==
    {i \in 1..Len(pkts) : pkts[i].raw /\ extract_l1_indicators(pkts[i].payload).has_rach}

\* C27: a run of a detector over a file appends at most one observation to
\* each metric of its category and none to another's, the observation is
\* that of the whole packet stream (the RACH attempt count is the number of
\* RACH packets of the file), the scorer's part of the file appends none, and
\* so no history has got more observations than files have been started.
C27_OneObservationPerFile ==
    [][/\ \A d \in DOMAIN DetCategory :
             (det_pc = d /\ det_pc' # d) =>
                 \A k \in Keys :
                     IF k[1] = DetCategory[d] THEN AtMostOneAppended(k)
                     ELSE baselines'[k] = baselines[k] /\ statistics'[k] = statistics[k]
       /\ (det_pc = "rach" /\ det_pc' # "rach") =>
             /\ statistics'[<<"rach", "attempt_count">>].count
                   = statistics[<<"rach", "attempt_count">>].count + 1
             /\ baselines'[<<"rach", "attempt_count">>]
                   [Len(baselines'[<<"rach", "attempt_count">>])]
                   = FInt(Cardinality(RachPacketsOf(FilePackets(det_file))))
       /\ (det_pc = "idle" /\ det_pc' # "idle") => UNCHANGED <<baselines, statistics>>
       /\ \A k \in Keys :
             statistics'[k].count
                 <= det_feed'.files_done + (IF det_pc' = "idle" THEN 0 ELSE 1)]_vars

\* The RACH detector has run over the storm, whose RACH packets are many,
\* after files that filled the histories
C27_Witness ==
    /\ det_pc = "handover" /\ det_file = "storm"
    /\ det_feed.files_done >= MinSamples
    /\ statistics[<<"rach", "attempt_count">>].count = det_feed.files_done + 1
    /\ statistics[<<"rach", "success_rate">>].count = det_feed.files_done + 1
    /\ Cardinality(RachPacketsOf(FilePackets(det_file))) > 1

\* ---- what main hands to storage and to the report ----
\* main extends all_anomalies by what process_single_file returns for each
\* file: the records of the scorer, then those of the seven detectors in the
\* order they run, and hands all_anomalies as it is to
\* store_anomalies_in_clickhouse and generate_summary_report.  For a folder
\* of one file it is the records of that file.
RankedByConfidence(records) ==
    \A i \in 1..(Len(records) - 1) : records[i].confidence >= records[i + 1].confidence

\* C16 as stated, for a folder of one file: the records handed on are those
\* of the scorer and of the detectors in one sequence of non-increasing
\* confidence.
C16_HandedRecordsRankedByConfidence ==
    (det_pc = "idle" /\ det_feed.files_done = 1) => RankedByConfidence(det_anomalies)

\* C9: every anomaly record of a file, from any of the seven detectors or
\* from the ensemble scorer, per-packet or category-level, has a confidence
\* that is a number in [0, 1].
C9_ConfidenceInUnitInterval ==
    \A i \in 1..Len(det_anomalies) :
        /\ det_anomalies[i].confidence # NaN
        /\ det_anomalies[i].confidence >= 0
        /\ det_anomalies[i].confidence <= Scale

\* A file with every error pattern after a history of MinSamples files: each
\* detector has made its per-packet and its category-level record, the
\* scorer's unanimous windows are there with confidence 1.0
C9_Witness ==
    /\ det_pc = "idle"
    /\ det_file = "storm"
    /\ det_feed.files_done = MinSamples + 1
    /\ {"DU-RU Communication", "RACH Failure", "Excessive RACH Attempts",
        "Handover Failure", "Low Handover Success Rate",
        "Excessive HARQ Retransmissions", "HARQ Retransmission Burst",
        "CRC Error", "High CRC Error Rate", "RRC Connection Failure",
        "Low RRC Connection Success Rate", "Timing Advance Violation",
        "High TA Violation Rate", "Power Control Anomaly",
        "Excessive Power Control Activity"} \subseteq AnomalyTypes
    /\ Scale \in ConfidenceOf("DU-RU Communication")
    /\ Scale \in ConfidenceOf("RACH Failure")

(***************************************************************************)
(*                    FEATURE WINDOWS OF THE SCORER                        *)
(***************************************************************************)
\* Python's int() of the quotient a / b of two numbers, b positive: the
\* quotient truncated toward zero
IntOfQuotient(a, b) == IF a >= 0 THEN a \div b ELSE -((-a) \div b)

\* window_index of a packet
WindowIndex(packet, start_time) == IntOfQuotient(packet.time - start_time, TimeWindow)

\* The positions 1..n as a list
Positions(n) == [i \in 1..n |-> i]

\* time_windows: the window indices in the order the dict got them, and the
\* positions of the packets of each
WindowKeys(index) ==
    SelectSeq(Positions(Len(index)), LAMBDA i : \A j \in 1..(i - 1) : index[j] # index[i])

WindowPositions(index, key) ==
    SelectSeq(Positions(Len(index)), LAMBDA i : index[i] = key)

\* How many of the packets at the positions are of the kind
CountKind(pkts, positions, kind) ==
    Cardinality({i \in 1..Len(positions) : pkts[positions[i]].kind = kind})

\* extract_window_features(window_packets): None for an empty window, or
\* else the feature vector, of which the model keeps the counts: du_count,
\* ru_count, missing_responses and total_packets
extract_window_features(pkts, positions) ==
    IF positions = <<>> THEN None
    ELSE Some([du_count |-> CountKind(pkts, positions, "du"),
               ru_count |-> CountKind(pkts, positions, "ru"),
               missing_responses |->
                   Max2(0, CountKind(pkts, positions, "du")
                           - CountKind(pkts, positions, "ru")),
               total_packets |-> Len(positions)])

\* The metadata of the window at the key
WindowMetadata(index, key) ==
    [window_index |-> index[key],
     packet_count |-> Len(WindowPositions(index, index[key])),
     start_packet |-> WindowPositions(index, index[key])[1] - 1,
     end_packet |->
         WindowPositions(index, index[key])[Len(WindowPositions(index, index[key]))] - 1]

\* The windows that give features (a feature vector is a non-empty list, so
\* `if window_features` holds for every vector)
EmittedKeys(pkts, index) ==
    SelectSeq(WindowKeys(index),
              LAMBDA k : extract_window_features(pkts,
                                                 WindowPositions(index, index[k])).some)

\* extract_pcap_features_basic(pkts), given the window index of each
ExtractWithIndex(pkts, index) ==
    [op |-> "extract_pcap_features_basic",
     packets |-> pkts,
     window_of |-> index,
     features |->
         [n \in 1..Len(EmittedKeys(pkts, index)) |->
             extract_window_features(
                 pkts,
                 WindowPositions(index, index[EmittedKeys(pkts, index)[n]])).val],
     packet_metadata |->
         [n \in 1..Len(EmittedKeys(pkts, index)) |->
             WindowMetadata(index, EmittedKeys(pkts, index)[n])]]

extract_pcap_features_basic(pkts) ==
    ExtractWithIndex(pkts,
                     [i \in 1..Len(pkts) |-> WindowIndex(pkts[i], pkts[1].time)])

\* ---- the packet lists ----
\* The most packets of a list
MaxFxPackets == 3

\* Packet times in 1/Scale second, none a whole number of windows from another
FxTimes == {-7, 0, 4, 12}

\* A packet from the DU, from the RU, or without an Ethernet layer
FxKinds == {"du", "ru", "no_ether"}

FxPackets == [time : FxTimes, kind : FxKinds]

FxIdle == fx_call = NoCall

\* A list of packets read from a capture, in capture order
FxInit ==
    \E n \in 1..MaxFxPackets : \E pkts \in [1..n -> FxPackets] :
        fx_call = [op |-> "pending", packets |-> pkts]

ExtractFeatures ==
    /\ fx_call.op = "pending"
    /\ fx_call' = extract_pcap_features_basic(fx_call.packets)

FxNext == ExtractFeatures

\* ---- properties of the feature windows ----
\* floor(a / b), b positive
FloorOfQuotient(a, b) == a \div b

FloorIndex(pkts, i) == FloorOfQuotient(pkts[i].time - pkts[1].time, TimeWindow)

\* C25 as stated: every packet is in the window whose index is
\* floor((timestamp - first_timestamp) / window_duration), a packet earlier
\* than the first one included, and two packets share a window iff their
\* floor indices are equal.
C25_WindowIsFloorIndex ==
    fx_call.op = "extract_pcap_features_basic" =>
        /\ \A i \in 1..Len(fx_call.packets) :
              fx_call.window_of[i] = FloorIndex(fx_call.packets, i)
        /\ \A i, j \in 1..Len(fx_call.packets) :
              (fx_call.window_of[i] = fx_call.window_of[j])
                  <=> (FloorIndex(fx_call.packets, i) = FloorIndex(fx_call.packets, j))

\* The part of C25 the code satisfies: lists in which no packet is earlier
\* than the first
C25_WindowIsFloorIndexFromFirstOn ==
    (/\ fx_call.op = "extract_pcap_features_basic"
     /\ \A i \in 1..Len(fx_call.packets) :
           fx_call.packets[i].time >= fx_call.packets[1].time) =>
        \A i \in 1..Len(fx_call.packets) :
            fx_call.window_of[i] = FloorIndex(fx_call.packets, i)

\* The packets of the window of the n-th feature vector
PacketsOfFeature(n) ==
    {i \in 1..Len(fx_call.packets) :
        fx_call.window_of[i] = fx_call.packet_metadata[n].window_index}

\* C26 as stated: every emitted feature vector comes from a window with at
\* least one usable packet (one with the Ethernet layer); a window without
\* any produces no feature vector.
C26_NoVectorWithoutUsablePacket ==
    fx_call.op = "extract_pcap_features_basic" =>
        \A n \in 1..Len(fx_call.features) :
            \E i \in PacketsOfFeature(n) : fx_call.packets[i].kind # "no_ether"

\* What holds instead: every window that got a packet gives a vector
C26_EveryWindowGivesVector ==
    fx_call.op = "extract_pcap_features_basic" =>
        {fx_call.packet_metadata[n].window_index : n \in 1..Len(fx_call.features)}
            = {fx_call.window_of[i] : i \in 1..Len(fx_call.packets)}

(***************************************************************************)
(*                            SPECIFICATIONS                               *)
(***************************************************************************)
\* The decoder parsing files
InitDLF == DlfInit /\ BlIdle /\ TpIdle /\ MlIdle /\ DetIdle /\ ScIdle /\ IndIdle /\ FxIdle

NextDLF == DlfNext /\ UNCHANGED <<blVars, tpVars, mlVars, detVars, scVars, indVars, fxVars>>

SpecDLF == InitDLF /\ [][NextDLF]_vars

\* The baseline tracker fed and queried directly
InitBaseline == DlfInit /\ BlInit /\ TpIdle /\ MlIdle /\ DetIdle /\ ScIdle /\ IndIdle /\ FxIdle

NextBaseline == BlNext /\ UNCHANGED <<dlfVars, tpVars, mlVars, detVars, scVars, indVars, fxVars>>

SpecBaseline == InitBaseline /\ [][NextBaseline]_vars

\* The temporal analyzer fed and queried directly
InitTemporal == DlfInit /\ BlIdle /\ TpInit /\ MlIdle /\ DetIdle /\ ScIdle /\ IndIdle /\ FxIdle

NextTemporal == TpNext /\ UNCHANGED <<dlfVars, blVars, mlVars, detVars, scVars, indVars, fxVars>>

SpecTemporal == InitTemporal /\ [][NextTemporal]_vars

\* The ensemble scorer analysing files
InitML == DlfInit /\ BlIdle /\ TpIdle /\ MlInit /\ DetIdle /\ ScIdle /\ IndIdle /\ FxIdle

NextML == MlNext /\ UNCHANGED <<dlfVars, blVars, tpVars, detVars, scVars, indVars, fxVars>>

SpecML == InitML /\ [][NextML]_vars

\* The folder analyzer processing the files of a folder: its tracker and the
\* scorer's directories change with it
InitDetect == DlfInit /\ BlIdle /\ TpIdle /\ MlIdle /\ DetInit /\ ScIdle /\ IndIdle /\ FxIdle

NextDetect ==
    DetNext /\ UNCHANGED <<dlfVars, tpVars, bl_call, bl_feed, ml_detector, ml_files, scVars,
                           indVars, fxVars>>

SpecDetect == InitDetect /\ [][NextDetect]_vars

\* Two scorer processes on shared directories
InitScorers == DlfInit /\ BlIdle /\ TpIdle /\ MlIdle /\ DetIdle /\ ScInit /\ IndIdle /\ FxIdle

NextScorers == ScNext /\ UNCHANGED <<dlfVars, blVars, tpVars, mlVars, detVars, indVars, fxVars>>

SpecScorers == InitScorers /\ [][NextScorers]_vars

\* The protocol parser handed packets directly
InitIndicators ==
    DlfInit /\ BlIdle /\ TpIdle /\ MlIdle /\ DetIdle /\ ScIdle /\ IndInit /\ FxIdle

NextIndicators ==
    IndNext /\ UNCHANGED <<dlfVars, blVars, tpVars, mlVars, detVars, scVars, fxVars>>

SpecIndicators == InitIndicators /\ [][NextIndicators]_vars

\* The feature extraction of the scorer handed packet lists directly
InitFeatures ==
    DlfInit /\ BlIdle /\ TpIdle /\ MlIdle /\ DetIdle /\ ScIdle /\ IndIdle /\ FxInit

NextFeatures ==
    FxNext /\ UNCHANGED <<dlfVars, blVars, tpVars, mlVars, detVars, scVars, indVars>>

SpecFeatures == InitFeatures /\ [][NextFeatures]_vars

=============================================================================
